---- MODULE Spec2Model ----
(***************************************************************************)
(* ApplyMate: the field-detection -> field-matching -> field-filling       *)
(* pipeline (PageAnalyzer, FieldMatcher, FormFiller), the browser manager  *)
(* (PlaywrightManager), the new-application page that drives them, and the *)
(* application and profile services the page reads and writes.             *)
(*                                                                         *)
(* A Python str is a sequence of one-character strings, so that            *)
(* lower-casing, the two re.sub normalisations, `pattern in text` and      *)
(* len() are computed as the code computes them.  A confidence score is an *)
(* exact fraction <<num, den>> in lowest terms.                            *)
(***************************************************************************)
EXTENDS Integers, Sequences, FiniteSets, TLC

\* ------------------------------------------------------------------ text

UpperChars == <<"A","B","C","D","E","F","G","H","I","J","K","L","M",
                "N","O","P","Q","R","S","T","U","V","W","X","Y","Z">>
LowerChars == <<"a","b","c","d","e","f","g","h","i","j","k","l","m",
                "n","o","p","q","r","s","t","u","v","w","x","y","z">>
DigitChars == <<"0","1","2","3","4","5","6","7","8","9">>

Range(s) == {s[i] : i \in 1..Len(s)}

\* str.lower() on one character
LowerChar(c) ==
  IF c \in Range(UpperChars)
  THEN LowerChars[CHOOSE i \in 1..Len(UpperChars) : UpperChars[i] = c]
  ELSE c

\* the regex classes \w and \s
IsWordChar(c) == c \in Range(UpperChars) \cup Range(LowerChars) \cup Range(DigitChars) \cup {"_"}
IsSpaceChar(c) == c \in {" ", "\t", "\n"}

StrLower(s) == [i \in 1..Len(s) |-> LowerChar(s[i])]

\* re.sub(r'[^\w\s]', ' ', s)
SubPunct(s) == [i \in 1..Len(s) |-> IF IsWordChar(s[i]) \/ IsSpaceChar(s[i]) THEN s[i] ELSE " "]

\* re.sub(r'\s+', ' ', s): every maximal run of whitespace becomes one blank
RECURSIVE SubSpacesFrom(_, _, _)
SubSpacesFrom(s, i, acc) ==
  IF i > Len(s) THEN acc
  ELSE IF ~IsSpaceChar(s[i]) THEN SubSpacesFrom(s, i + 1, Append(acc, s[i]))
  ELSE IF i > 1 /\ IsSpaceChar(s[i - 1]) THEN SubSpacesFrom(s, i + 1, acc)
  ELSE SubSpacesFrom(s, i + 1, Append(acc, " "))

SubSpaces(s) == SubSpacesFrom(s, 1, <<>>)

\* str.strip()
StrStrip(s) ==
  LET ns == {i \in 1..Len(s) : ~IsSpaceChar(s[i])}
  IN IF ns = {} THEN <<>>
     ELSE LET lo == CHOOSE i \in ns : \A j \in ns : i <= j
              hi == CHOOSE i \in ns : \A j \in ns : j <= i
          IN SubSeq(s, lo, hi)

\* ' '.join(texts)
RECURSIVE JoinFrom(_, _, _)
JoinFrom(texts, i, acc) ==
  IF i > Len(texts) THEN acc
  ELSE JoinFrom(texts, i + 1, IF i = 1 THEN texts[i] ELSE acc \o <<" ">> \o texts[i])

StrJoin(texts) == JoinFrom(texts, 1, <<>>)

\* `pattern in field_text`
Contains(text, pattern) ==
  \E i \in 0..(Len(text) - Len(pattern)) : SubSeq(text, i + 1, i + Len(pattern)) = pattern

\* ---------------------------------------------------------------- scores

RECURSIVE GCD(_, _)
GCD(a, b) == IF b = 0 THEN a ELSE GCD(b, a % b)

Frac(n, d) == IF n = 0 THEN <<0, 1>> ELSE <<n \div GCD(n, d), d \div GCD(n, d)>>
FracLess(a, b) == a[1] * b[2] < b[1] * a[2]
FracLeq(a, b) == a[1] * b[2] <= b[1] * a[2]
FracMin(a, b) == IF FracLess(b, a) THEN b ELSE a
FracMul(a, b) == Frac(a[1] * b[1], a[2] * b[2])
Zero == Frac(0, 1)

\* Python's None
None == "None"

\* settings.MIN_FIELD_MATCH_SCORE = 0.6
MIN_FIELD_MATCH_SCORE == Frac(6, 10)
\* the cap of _pattern_match and the factor of _nlp_match
PATTERN_CAP == Frac(9, 10)
NLP_FACTOR == Frac(95, 100)

\* ------------------------------------------------------------ vocabulary

FIELD_PATTERNS ==
  <<
    [field |-> "first_name", patterns |-> <<
        <<"f","i","r","s","t"," ","n","a","m","e">>,
        <<"f","i","r","s","t","n","a","m","e">>,
        <<"g","i","v","e","n"," ","n","a","m","e">>,
        <<"f","n","a","m","e">>,
        <<"f","o","r","e","n","a","m","e">>,
        <<"f","i","r","s","t">>,
        <<"n","a","m","e"," ","f","i","r","s","t">>,
        <<"f","i","r","s","t","_","n","a","m","e">>
      >>],
    [field |-> "last_name", patterns |-> <<
        <<"l","a","s","t"," ","n","a","m","e">>,
        <<"l","a","s","t","n","a","m","e">>,
        <<"s","u","r","n","a","m","e">>,
        <<"f","a","m","i","l","y"," ","n","a","m","e">>,
        <<"l","n","a","m","e">>,
        <<"l","a","s","t">>,
        <<"n","a","m","e"," ","l","a","s","t">>,
        <<"l","a","s","t","_","n","a","m","e">>
      >>],
    [field |-> "email", patterns |-> <<
        <<"e","m","a","i","l">>,
        <<"e","-","m","a","i","l">>,
        <<"e","m","a","i","l"," ","a","d","d","r","e","s","s">>,
        <<"e","-","m","a","i","l"," ","a","d","d","r","e","s","s">>,
        <<"c","o","n","t","a","c","t"," ","e","m","a","i","l">>,
        <<"y","o","u","r"," ","e","m","a","i","l">>,
        <<"m","a","i","l">>
      >>],
    [field |-> "phone", patterns |-> <<
        <<"p","h","o","n","e">>,
        <<"t","e","l","e","p","h","o","n","e">>,
        <<"p","h","o","n","e"," ","n","u","m","b","e","r">>,
        <<"t","e","l">>,
        <<"m","o","b","i","l","e">>,
        <<"c","e","l","l">>,
        <<"c","o","n","t","a","c","t"," ","n","u","m","b","e","r">>,
        <<"m","o","b","i","l","e"," ","n","u","m","b","e","r">>,
        <<"c","e","l","l"," ","p","h","o","n","e">>
      >>],
    [field |-> "address_line1", patterns |-> <<
        <<"a","d","d","r","e","s","s">>,
        <<"s","t","r","e","e","t"," ","a","d","d","r","e","s","s">>,
        <<"a","d","d","r","e","s","s"," ","l","i","n","e"," ","1">>,
        <<"a","d","d","r","e","s","s"," ","1">>,
        <<"s","t","r","e","e","t">>,
        <<"a","d","d","r","e","s","s"," ","l","i","n","e","1">>,
        <<"s","t","r","e","e","t"," ","1">>
      >>],
    [field |-> "address_line2", patterns |-> <<
        <<"a","d","d","r","e","s","s"," ","l","i","n","e"," ","2">>,
        <<"a","d","d","r","e","s","s"," ","2">>,
        <<"a","p","a","r","t","m","e","n","t">>,
        <<"a","p","t">>,
        <<"s","u","i","t","e">>,
        <<"u","n","i","t">>,
        <<"a","d","d","r","e","s","s"," ","l","i","n","e","2">>,
        <<"a","p","t","/","s","u","i","t","e">>
      >>],
    [field |-> "city", patterns |-> <<
        <<"c","i","t","y">>,
        <<"t","o","w","n">>,
        <<"m","u","n","i","c","i","p","a","l","i","t","y">>
      >>],
    [field |-> "state", patterns |-> <<
        <<"s","t","a","t","e">>,
        <<"p","r","o","v","i","n","c","e">>,
        <<"r","e","g","i","o","n">>,
        <<"s","t","a","t","e","/","p","r","o","v","i","n","c","e">>
      >>],
    [field |-> "zip_code", patterns |-> <<
        <<"z","i","p">>,
        <<"z","i","p"," ","c","o","d","e">>,
        <<"p","o","s","t","a","l"," ","c","o","d","e">>,
        <<"p","o","s","t","c","o","d","e">>,
        <<"p","o","s","t","a","l">>,
        <<"z","i","p","c","o","d","e">>,
        <<"z","i","p","/","p","o","s","t","a","l">>
      >>],
    [field |-> "country", patterns |-> <<
        <<"c","o","u","n","t","r","y">>,
        <<"n","a","t","i","o","n">>
      >>],
    [field |-> "linkedin_url", patterns |-> <<
        <<"l","i","n","k","e","d","i","n">>,
        <<"l","i","n","k","e","d","i","n"," ","u","r","l">>,
        <<"l","i","n","k","e","d","i","n"," ","p","r","o","f","i","l","e">>,
        <<"l","i","n","k","e","d","i","n",".","c","o","m">>
      >>],
    [field |-> "github_url", patterns |-> <<
        <<"g","i","t","h","u","b">>,
        <<"g","i","t","h","u","b"," ","u","r","l">>,
        <<"g","i","t","h","u","b"," ","p","r","o","f","i","l","e">>,
        <<"g","i","t","h","u","b",".","c","o","m">>,
        <<"g","i","t","h","u","b"," ","u","s","e","r","n","a","m","e">>
      >>],
    [field |-> "portfolio_url", patterns |-> <<
        <<"p","o","r","t","f","o","l","i","o">>,
        <<"w","e","b","s","i","t","e">>,
        <<"p","e","r","s","o","n","a","l"," ","w","e","b","s","i","t","e">>,
        <<"p","o","r","t","f","o","l","i","o"," ","u","r","l">>,
        <<"p","e","r","s","o","n","a","l"," ","s","i","t","e">>,
        <<"w","e","b"," ","s","i","t","e">>
      >>],
    [field |-> "current_company", patterns |-> <<
        <<"c","u","r","r","e","n","t"," ","c","o","m","p","a","n","y">>,
        <<"e","m","p","l","o","y","e","r">>,
        <<"c","o","m","p","a","n","y">>,
        <<"c","u","r","r","e","n","t"," ","e","m","p","l","o","y","e","r">>,
        <<"o","r","g","a","n","i","z","a","t","i","o","n">>
      >>],
    [field |-> "current_title", patterns |-> <<
        <<"j","o","b"," ","t","i","t","l","e">>,
        <<"t","i","t","l","e">>,
        <<"c","u","r","r","e","n","t"," ","t","i","t","l","e">>,
        <<"p","o","s","i","t","i","o","n">>,
        <<"c","u","r","r","e","n","t"," ","p","o","s","i","t","i","o","n">>,
        <<"r","o","l","e">>,
        <<"c","u","r","r","e","n","t"," ","r","o","l","e">>
      >>],
    [field |-> "years_of_experience", patterns |-> <<
        <<"y","e","a","r","s"," ","o","f"," ","e","x","p","e","r","i","e","n","c","e">>,
        <<"e","x","p","e","r","i","e","n","c","e">>,
        <<"y","e","a","r","s"," ","e","x","p","e","r","i","e","n","c","e">>,
        <<"w","o","r","k"," ","e","x","p","e","r","i","e","n","c","e">>,
        <<"t","o","t","a","l"," ","e","x","p","e","r","i","e","n","c","e">>
      >>],
    [field |-> "education_level", patterns |-> <<
        <<"e","d","u","c","a","t","i","o","n"," ","l","e","v","e","l">>,
        <<"d","e","g","r","e","e">>,
        <<"h","i","g","h","e","s","t"," ","d","e","g","r","e","e">>,
        <<"e","d","u","c","a","t","i","o","n">>,
        <<"l","e","v","e","l"," ","o","f"," ","e","d","u","c","a","t","i","o","n">>,
        <<"q","u","a","l","i","f","i","c","a","t","i","o","n">>
      >>],
    [field |-> "university", patterns |-> <<
        <<"u","n","i","v","e","r","s","i","t","y">>,
        <<"c","o","l","l","e","g","e">>,
        <<"s","c","h","o","o","l">>,
        <<"i","n","s","t","i","t","u","t","i","o","n">>,
        <<"e","d","u","c","a","t","i","o","n","a","l"," ","i","n","s","t","i","t","u","t","i","o","n">>
      >>],
    [field |-> "major", patterns |-> <<
        <<"m","a","j","o","r">>,
        <<"f","i","e","l","d"," ","o","f"," ","s","t","u","d","y">>,
        <<"d","e","g","r","e","e"," ","m","a","j","o","r">>,
        <<"c","o","u","r","s","e">>,
        <<"s","p","e","c","i","a","l","i","z","a","t","i","o","n">>,
        <<"s","u","b","j","e","c","t">>
      >>],
    [field |-> "graduation_year", patterns |-> <<
        <<"g","r","a","d","u","a","t","i","o","n"," ","y","e","a","r">>,
        <<"y","e","a","r"," ","o","f"," ","g","r","a","d","u","a","t","i","o","n">>,
        <<"g","r","a","d"," ","y","e","a","r">>,
        <<"g","r","a","d","u","a","t","e","d">>,
        <<"c","o","m","p","l","e","t","i","o","n"," ","y","e","a","r">>
      >>],
    [field |-> "gpa", patterns |-> <<
        <<"g","p","a">>,
        <<"g","r","a","d","e"," ","p","o","i","n","t"," ","a","v","e","r","a","g","e">>,
        <<"c","g","p","a">>,
        <<"g","r","a","d","e","s">>
      >>]
  >>

\* the (profile_field, pattern) pairs in the order the two nested loops of
\* _pattern_match visit them
RECURSIVE FlattenFrom(_, _, _)
FlattenFrom(table, i, acc) ==
  IF i > Len(table) THEN acc
  ELSE FlattenFrom(table, i + 1,
         acc \o [j \in 1..Len(table[i].patterns) |->
                   [field |-> table[i].field, pattern |-> table[i].patterns[j]]])

PatternList == FlattenFrom(FIELD_PATTERNS, 1, <<>>)

\* ------------------------------------------------------------- FormField

FormField(element_type, field_type, name, id, label, placeholder, required, selector, options) ==
  [element_type |-> element_type, field_type |-> field_type, name |-> name, id |-> id,
   label |-> label, placeholder |-> placeholder, required |-> required,
   selector |-> selector, options |-> options]

\* --------------------------------------------------- FieldMatcher (pure)

\* _extract_field_text: label, placeholder, name, id, the non-empty ones,
\* joined by a blank, lower-cased, punctuation to blank, whitespace collapsed
ExtractFieldText(field) ==
  LET texts == SelectSeq(<<field.label, field.placeholder, field.name, field.id>>,
                         LAMBDA t : t # <<>>)
  IN StrStrip(SubSpaces(SubPunct(StrLower(StrJoin(texts)))))

\* variant: the ratio without the min(..., 0.9)
PatternScoreUncapped(pattern, field_text) == Frac(Len(pattern), Len(field_text))

\* `score = len(pattern) / len(field_text); score = min(score, 0.9)`
PatternScore(pattern, field_text) == FracMin(Frac(Len(pattern), Len(field_text)), PATTERN_CAP)

\* variant: `if score >= best_score`, the last of equal scores wins
PatternBetterOrEqual(score, best_score) == FracLess(Zero, score) /\ FracLeq(best_score, score)

\* variant: the first phrase found wins
PatternBetterFirstFound(score, best_score) == best_score = Zero /\ FracLess(Zero, score)

\* `if score > best_score`
PatternBetter(score, best_score) == FracLess(best_score, score)

\* _pattern_match, the inner loop `for pattern in patterns`
RECURSIVE PatternMatchInner(_, _, _, _)
PatternMatchInner(field_text, entry, j, best) ==
  IF j > Len(entry.patterns) THEN best
  ELSE LET pattern == entry.patterns[j]
       IN IF Contains(field_text, pattern)
             /\ PatternBetter(PatternScore(pattern, field_text), best.score)
          THEN PatternMatchInner(field_text, entry, j + 1,
                 [field |-> entry.field, score |-> PatternScore(pattern, field_text)])
          ELSE PatternMatchInner(field_text, entry, j + 1, best)

\* _pattern_match, the outer loop `for profile_field, patterns in FIELD_PATTERNS.items()`
RECURSIVE PatternMatchOuter(_, _, _)
PatternMatchOuter(field_text, i, best) ==
  IF i > Len(FIELD_PATTERNS) THEN best
  ELSE LET after == PatternMatchInner(field_text, FIELD_PATTERNS[i], 1, best)
       IN IF after = best
          THEN PatternMatchOuter(field_text, i + 1, best)
          ELSE PatternMatchOuter(field_text, i + 1, after)

\* variant: the search starts from a best score above zero
PatternMatchFromFloor(field_text) ==
  PatternMatchOuter(field_text, 1, [field |-> None, score |-> Frac(1, 10)])

\* _pattern_match: best_match = None, best_score = 0.0, then the loops
PatternMatch(field_text) == PatternMatchOuter(field_text, 1, [field |-> None, score |-> Zero])

\* The spaCy tokenizer on the texts met here: tokens are separated by
\* whitespace, and a hyphen or a slash between letters is a token of its own
\* (the English infix rules); nlp(text) and nlp(pattern) tokenize alike.
RECURSIVE TokenizeFrom(_, _, _, _)
TokenizeFrom(s, i, cur, acc) ==
  LET flush == IF cur = <<>> THEN acc ELSE Append(acc, cur)
  IN IF i > Len(s) THEN flush
     ELSE IF IsSpaceChar(s[i]) THEN TokenizeFrom(s, i + 1, <<>>, flush)
     ELSE IF s[i] \in {"-", "/"} THEN TokenizeFrom(s, i + 1, <<>>, Append(flush, <<s[i]>>))
     ELSE TokenizeFrom(s, i + 1, Append(cur, s[i]), acc)

Tokenize(s) == TokenizeFrom(StrLower(s), 1, <<>>, <<>>)

\* initialize, lines 115-117: every pattern of every profile field, as a Doc
PatternDocs == [k \in 1..Len(PatternList) |-> Tokenize(PatternList[k].pattern)]

\* PhraseMatcher.__call__: the matches (k, start, end) of the pattern docs in
\* the doc, end exclusive, positions from 0
MatcherCall(doc) ==
  LET found == {p \in (1..Len(PatternDocs)) \X (0..(Len(doc) - 1)) :
                  /\ p[2] + Len(PatternDocs[p[1]]) <= Len(doc)
                  /\ SubSeq(doc, p[2] + 1, p[2] + Len(PatternDocs[p[1]])) = PatternDocs[p[1]]}
  IN {<<p[1], p[2], p[2] + Len(PatternDocs[p[1]])>> : p \in found}

\* matches[0]: PhraseMatcher reports matches by start token, and among those
\* of one start the shorter first
FirstMatch(matches) ==
  CHOOSE m \in matches :
    \A o \in matches : m[2] < o[2] \/ (m[2] = o[2] /\ m[3] < o[3])
                       \/ (m[2] = o[2] /\ m[3] = o[3] /\ m[1] <= o[1])

\* `confidence = min(match_length / total_length, 1.0) * 0.95`
NlpConfidence(match_length, total_length) ==
  FracMul(FracMin(Frac(match_length, total_length), Frac(1, 1)), NLP_FACTOR)

\* _nlp_match; self_nlp and self_matcher say that self.nlp and self.matcher
\* are set
NlpMatch(self_nlp, self_matcher, field_text) ==
  IF ~self_nlp \/ ~self_matcher THEN [field |-> None, score |-> Zero]
  ELSE LET doc == Tokenize(field_text)
           matches == MatcherCall(doc)
       IN IF matches # {}
          THEN LET m == FirstMatch(matches)
               IN [field |-> PatternList[m[1]].field,
                   score |-> NlpConfidence(m[3] - m[2], Len(doc))]
          ELSE [field |-> None, score |-> Zero]

\* variant: any attribute the engine names is returned, whatever its score
NlpAcceptedAnyScore(r) == r.field # None

\* `if profile_field and score >= settings.MIN_FIELD_MATCH_SCORE`
NlpAccepted(r) == r.field # None /\ FracLeq(MIN_FIELD_MATCH_SCORE, r.score)

NoMatch == [field |-> None, score |-> Zero]

\* ------------------------------------------------------------- the page

\* An element of the served document, in document order: its tag, its
\* attributes (<<>> = attribute absent or empty), the container it is a child
\* of, the <option>s of a select, and what the label queries of
\* _find_label_for_element find for it:
\*   for_label     text of the first <label for=id>, <<>> when there is none
\*   parent_label  text of the closest ancestor <label>, NoLabel when there is none
\* and value, the text the control holds (<<>> unless said otherwise).  The text
\* of a <label> is its textContent: it holds the text inside a <textarea> that
\* is a descendant of the label.
NoLabel == "no label"

Element(tag, type, id, name, placeholder, required, aria_label, for_label, parent_label, parent, options) ==
  [tag |-> tag, type |-> type, id |-> id, name |-> name, placeholder |-> placeholder,
   required |-> required, aria_label |-> aria_label, for_label |-> for_label,
   parent_label |-> parent_label, parent |-> parent, options |-> options, value |-> <<>>]

Option(value, text) == [value |-> value, text |-> text]

TxtEmailAddress == <<"E","m","a","i","l"," ","A","d","d","r","e","s","s">>
TxtYouAtExample == <<"y","o","u","@","e","x","a","m","p","l","e",".","c","o","m">>
TxtEmailAddr == <<"e","m","a","i","l","_","a","d","d","r">>
TxtPhone == <<"P","h","o","n","e">>
TxtFoo == <<"F","o","o">>
TxtJobTitle == <<"J","o","b"," ","T","i","t","l","e">>
TxtSpecialization == <<"S","p","e","c","i","a","l","i","z","a","t","i","o","n">>
TxtFirstName == <<"F","i","r","s","t"," ","N","a","m","e">>
TxtPhoneEmail == <<"P","h","o","n","e"," ","E","m","a","i","l">>
TxtStateProvince == <<"S","t","a","t","e","/","P","r","o","v","i","n","c","e">>
TxtGender == <<"g","e","n","d","e","r">>
TxtGo == <<"g","o">>
TxtCoverLetter == <<"c","o","v","e","r","_","l","e","t","t","e","r">>
TxtDegree == <<"d","e","g","r","e","e">>
TxtEducationLevel == <<"E","d","u","c","a","t","i","o","n"," ","L","e","v","e","l">>
TxtBachelor == <<"B","a","c","h","e","l","o","r">>
TxtBachelorPadded == <<" ","B","a","c","h","e","l","o","r"," ">>
TxtBsc == <<"b","s","c">>
TxtBlank == <<" "," ">>
TxtHello == <<"H","e","l","l","o">>
TxtNotesHello == <<"N","o","t","e","s"," ","H","e","l","l","o">>
TxtTel == <<"t","e","l">>

ElEmail ==
  Element("input", "email", TxtEmailAddr, <<>>, TxtYouAtExample, TRUE, <<>>, TxtEmailAddress,
          NoLabel, 1, <<>>)
ElPhone ==
  Element("input", "", <<>>, <<>>, <<>>, FALSE, TxtPhone, <<>>, NoLabel, 1, <<>>)
ElRadio ==
  Element("input", "radio", <<>>, TxtGender, <<>>, FALSE, <<>>, <<>>, TxtGender, 1, <<>>)
ElSubmit ==
  Element("input", "submit", <<>>, <<>>, <<>>, FALSE, <<>>, <<>>, NoLabel, 1, <<>>)
ElImage ==
  Element("input", "image", <<>>, TxtGo, <<>>, FALSE, <<>>, <<>>, NoLabel, 1, <<>>)
ElTextarea ==
  Element("textarea", "", <<>>, TxtCoverLetter, <<>>, FALSE, <<>>, <<>>, NoLabel, 1, <<>>)
ElSelect ==
  Element("select", "", TxtDegree, <<>>, <<>>, FALSE, <<>>, TxtEducationLevel, NoLabel, 1,
          <<Option(<<>>, TxtBlank), Option(TxtBsc, TxtBachelorPadded)>>)
\* <label>Notes <textarea>Hello</textarea></label>
ElNotes ==
  [Element("textarea", "", <<>>, <<>>, <<>>, FALSE, <<>>, <<>>, TxtNotesHello, 1, <<>>)
     EXCEPT !.value = TxtHello]
\* <label for="tel">  </label><input id="tel" aria-label="Phone">
ElTel ==
  Element("input", "", TxtTel, <<>>, <<>>, FALSE, TxtPhone, TxtBlank, NoLabel, 1, <<>>)

\* the elements pages are made of
Elements == {ElEmail, ElPhone, ElRadio, ElSubmit, ElImage, ElTextarea, ElSelect, ElNotes, ElTel}

\* ---------------------------------------------------------- PageAnalyzer

StrHash == <<"#">>
StrNameOpen == <<"[","n","a","m","e","=","\"">>
StrNameClose == <<"\"","]">>
StrNthOpen == <<":","n","t","h","-","o","f","-","t","y","p","e","(">>
StrNthClose == <<")">>
TagChars(tag) ==
  CASE tag = "input" -> <<"i","n","p","u","t">>
    [] tag = "textarea" -> <<"t","e","x","t","a","r","e","a">>
    [] tag = "select" -> <<"s","e","l","e","c","t">>

\* str(n) of an f-string, n >= 0
RECURSIVE Decimal(_)
Decimal(n) == IF n < 10 THEN <<DigitChars[n + 1]>> ELSE Append(Decimal(n \div 10), DigitChars[(n % 10) + 1])

\* _find_label_for_element: label[for=id], then aria-label, then
\* el.closest("label").  evaluate_handle returns a handle also for null, and
\* a handle of null has no text_content: the AttributeError is caught and the
\* label is "".
FindLabelForElement(e) ==
  IF e.id # <<>> /\ e.for_label # <<>> THEN StrStrip(e.for_label)
  ELSE IF e.aria_label # <<>> THEN StrStrip(e.aria_label)
  ELSE IF e.parent_label = NoLabel THEN <<>>
  ELSE IF e.parent_label # <<>> THEN StrStrip(e.parent_label)
  ELSE <<>>

\* variant: no selector by position
MakeSelectorNoPosition(tag, id_attr, name, idx) ==
  IF id_attr # <<>> THEN StrHash \o id_attr
  ELSE IF name # <<>> THEN TagChars(tag) \o StrNameOpen \o name \o StrNameClose
  ELSE <<>>

\* `if id_attr: '#id' elif name: 'tag[name="name"]' else: 'tag:nth-of-type(idx + 1)'`
MakeSelector(tag, id_attr, name, idx) ==
  IF id_attr # <<>> THEN StrHash \o id_attr
  ELSE IF name # <<>> THEN TagChars(tag) \o StrNameOpen \o name \o StrNameClose
  ELSE TagChars(tag) \o StrNthOpen \o Decimal(idx + 1) \o StrNthClose

\* the query of each _detect_*_fields
QueryMatches(tag, e) ==
  /\ e.tag = tag
  /\ tag = "input" => e.type \notin {"hidden", "submit", "button"}

\* page.query_selector_all(query): the positions of the matching elements,
\* in document order
RECURSIVE QuerySelectorAllFrom(_, _, _, _)
QuerySelectorAllFrom(page, tag, i, acc) ==
  IF i > Len(page) THEN acc
  ELSE QuerySelectorAllFrom(page, tag, i + 1,
         IF QueryMatches(tag, page[i]) THEN Append(acc, i) ELSE acc)

QuerySelectorAll(page, tag) == QuerySelectorAllFrom(page, tag, 1, <<>>)

\* the options of a select descriptor: the stripped text of every <option>
\* whose text is not blank
OptionTexts(options) ==
  LET texts == [k \in 1..Len(options) |-> StrStrip(options[k].text)]
  IN SelectSeq(texts, LAMBDA t : t # <<>>)

\* the FormField built from the element that is number idx (from 0) of its
\* query's result
DetectField(tag, e, idx) ==
  FormField(tag,
            IF tag = "input" THEN (IF e.type # "" THEN e.type ELSE "text") ELSE tag,
            e.name, e.id, FindLabelForElement(e),
            IF tag = "select" THEN <<>> ELSE e.placeholder,
            e.required, MakeSelector(tag, e.id, e.name, idx),
            IF tag = "select" THEN OptionTexts(e.options) ELSE <<>>)

\* variant: without the handler inside the loop the first failing element
\* ends the loop of its kind (the handler around the loop returns the fields
\* built so far)
StopAtFailed(made, detached) ==
  LET bad == {k \in 1..Len(made) : made[k].from \in detached}
  IN IF bad = {} THEN made
     ELSE SubSeq(made, 1, (CHOOSE k \in bad : \A j \in bad : k <= j) - 1)

\* `try: ... fields.append(field) except Exception as e: logger.warning(...);
\* continue`: an element whose handle raises while it is read (a detached
\* node) adds nothing, and the loop goes on with the next element
SkipFailed(made, detached) ==
  SelectSeq(made, LAMBDA d : d.from \notin detached)

\* _detect_input_fields, _detect_textarea_fields, _detect_select_fields: the
\* descriptors built, each with the position of its element in the document
DetectFields(page, tag, detached) ==
  LET found == QuerySelectorAll(page, tag)
  IN SkipFailed([k \in 1..Len(found) |->
                   [field |-> DetectField(tag, page[found[k]], k - 1), from |-> found[k]]],
                detached)

\* detect_form_fields: inputs, then textareas, then selects.  Every handler
\* on the way returns a list, so nothing is raised.
DetectFormFields(page, detached) ==
  LET Fields(built) ==
        [fields |-> [k \in 1..Len(built) |-> built[k].field],
         from |-> [k \in 1..Len(built) |-> built[k].from],
         raised |-> FALSE]
  IN CHOOSE r \in {Fields(built) :
                     built \in {DetectFields(page, "input", detached)
                                  \o DetectFields(page, "textarea", detached)
                                  \o DetectFields(page, "select", detached)}} : TRUE

\* ------------------------------------------------ descriptors to match

\* a descriptor as detection builds it, by its label, placeholder, name and id
TextField(label, placeholder, name, id) ==
  FormField("input", "text", name, id, label, placeholder, FALSE,
            MakeSelector("input", id, name, 0), <<>>)

Descriptors ==
  << TextField(TxtEmailAddress, TxtYouAtExample, <<>>, TxtEmailAddr),
     TextField(TxtPhone, <<>>, <<>>, <<>>),
     TextField(<<>>, <<>>, <<>>, <<>>),
     TextField(TxtFoo, <<>>, <<>>, <<>>),
     TextField(TxtJobTitle, TxtSpecialization, <<>>, <<>>),
     TextField(TxtFirstName, <<>>, <<>>, <<>>),
     TextField(TxtPhoneEmail, <<>>, <<>>, <<>>),
     TextField(TxtStateProvince, <<>>, <<>>, <<>>) >>

\* the four texts _extract_field_text reads
FieldTexts(field) == <<field.label, field.placeholder, field.name, field.id>>

\* every (label, placeholder, name, id) a descriptor of the model can carry
KnownFieldTexts ==
  {FieldTexts(Descriptors[k]) : k \in 1..Len(Descriptors)}
  \cup {FieldTexts(DetectField(e.tag, e, 0)) : e \in Elements}

\* _extract_field_text, _pattern_match and _nlp_match on the texts of the
\* model, each computed once
ExtractFieldTextOf ==
  [t \in KnownFieldTexts |->
     ExtractFieldText([label |-> t[1], placeholder |-> t[2], name |-> t[3], id |-> t[4]])]
KnownTexts == {ExtractFieldTextOf[t] : t \in KnownFieldTexts}
PatternMatchOf == [t \in KnownTexts |-> PatternMatch(t)]
NlpMatchLoadedOf == [t \in KnownTexts |-> NlpMatch(TRUE, TRUE, t)]
NlpMatchOf(self_nlp, self_matcher, field_text) ==
  IF self_nlp /\ self_matcher THEN NlpMatchLoadedOf[field_text]
  ELSE NlpMatch(self_nlp, self_matcher, field_text)

\* FieldMatcher.__init__: nlp = None, matcher = None, _initialized = False
NewMatcher == [nlp |-> FALSE, matcher |-> FALSE, initialized |-> FALSE]

\* initialize(): the engine after the call, whether spacy.load was called,
\* and whether it raised.  spacy.load succeeds when the model is available.
InitializeCall(eng, available) ==
  IF eng.initialized
  THEN [eng |-> eng, loaded |-> FALSE, failed |-> FALSE]
  ELSE IF available
  THEN [eng |-> [nlp |-> TRUE, matcher |-> TRUE, initialized |-> TRUE],
        loaded |-> TRUE, failed |-> FALSE]
  ELSE [eng |-> eng, loaded |-> TRUE, failed |-> TRUE]

\* the one element of a singleton set: Only({e}) is e, evaluated once
Only(S) == CHOOSE x \in S : TRUE

\* match_field: the engine after the call, whether it called spacy.load and
\* whether that raised, the normalized text, what _nlp_match returned when it
\* was called, the strategy whose result is returned, and the result
MatchFieldCall(eng, available, form_field) ==
  LET Call(init, field_text, semantic, strategy, result) ==
        [eng |-> init.eng, loaded |-> init.loaded, failed |-> init.failed,
         text |-> field_text, semantic |-> semantic, strategy |-> strategy,
         result |-> result]
      Body(init, field_text, semantic) ==
        IF field_text = <<>>
        THEN Call(init, field_text, NoMatch, "none", NoMatch)
        ELSE IF init.eng.nlp /\ NlpAccepted(semantic)
        THEN Call(init, field_text, semantic, "semantic", semantic)
        ELSE Call(init, field_text, IF init.eng.nlp THEN semantic ELSE NoMatch,
                  "substring", PatternMatchOf[field_text])
  IN Only({Body(init, field_text, NlpMatchOf(init.eng.nlp, init.eng.matcher, field_text)) :
             init \in {IF ~eng.initialized THEN InitializeCall(eng, available)
                       ELSE [eng |-> eng, loaded |-> FALSE, failed |-> FALSE]},
             field_text \in {ExtractFieldTextOf[FieldTexts(form_field)]}})

\* a Python dict as a function; d[k] = v
DictSet(d, k, v) == [x \in (DOMAIN d) \cup {k} |-> IF x = k THEN v ELSE d[x]]
EmptyDict == [x \in {} |-> None]

\* variant: descriptors hash and compare by their content
FieldKeyByValue(i, form_field) == form_field

\* FormField defines neither __eq__ nor __hash__: a dict keyed by FormField
\* objects is keyed by object identity.  The i-th object of a list is object i.
FieldKey(i, form_field) == i

\* variant: an attribute already given to an earlier descriptor of the batch
\* is not given again
MatchesEntryExclusive(matches, result) ==
  IF result.field # None /\ \E k \in DOMAIN matches : matches[k].field = result.field
  THEN NoMatch
  ELSE result

\* `matches[field] = (profile_field, score)`
MatchesEntry(matches, result) == result

\* match_fields: the loop from position i on; acc is the dict so far, with
\* the engine and what the calls of match_field did to it
RECURSIVE MatchFieldsFrom(_, _, _, _)
MatchFieldsFrom(form_fields, i, available, acc) ==
  IF i > Len(form_fields) THEN acc
  ELSE LET Step(call) ==
             [eng |-> call.eng,
              loads |-> acc.loads + (IF call.loaded THEN 1 ELSE 0),
              failed |-> acc.failed \/ call.failed,
              matches |-> DictSet(acc.matches, FieldKey(i, form_fields[i]),
                                  MatchesEntry(acc.matches, call.result))]
       IN Only({MatchFieldsFrom(form_fields, i + 1, available, next) :
                  next \in {Step(call) :
                             call \in {MatchFieldCall(acc.eng, available, form_fields[i])}}})

MatchFieldsCall(eng, available, form_fields) ==
  MatchFieldsFrom(form_fields, 1, available,
                  [eng |-> eng, loads |-> 0, failed |-> FALSE, matches |-> EmptyDict])

\* ------------------------------------------------------------ the page API

\* nth-of-type: the position of element i among the children of its parent
\* that have its tag
NthOfType(page, i) ==
  Cardinality({j \in 1..i : page[j].tag = page[i].tag /\ page[j].parent = page[i].parent})

\* CSS: element i of the page matches '#id', 'tag[name="name"]' or
\* 'tag:nth-of-type(k)'
SelectorMatches(page, i, selector) ==
  \/ page[i].id # <<>> /\ selector = StrHash \o page[i].id
  \/ page[i].name # <<>>
       /\ selector = TagChars(page[i].tag) \o StrNameOpen \o page[i].name \o StrNameClose
  \/ selector = TagChars(page[i].tag) \o StrNthOpen \o Decimal(NthOfType(page, i)) \o StrNthClose

\* the element a page method acts on: the first match in document order,
\* 0 when nothing matches
QuerySelector(page, selector) ==
  LET hits == {i \in 1..Len(page) : SelectorMatches(page, i, selector)}
  IN IF hits = {} THEN 0 ELSE CHOOSE i \in hits : \A j \in hits : i <= j

\* input types page.fill refuses
NonFillableTypes == {"checkbox", "radio", "file", "submit", "image", "button", "reset"}

Fillable(e) == e.tag = "textarea" \/ (e.tag = "input" /\ e.type \notin NonFillableTypes)

\* Python values given to fill_field
PyStr(s) == [type |-> "str", str |-> s, int |-> 0]
PyNone == [type |-> "NoneType", str |-> <<>>, int |-> 0]
PyInt(n) == [type |-> "int", str |-> <<>>, int |-> n]

\* bool(value)
Truthy(value) ==
  CASE value.type = "str" -> value.str # <<>>
    [] value.type = "NoneType" -> FALSE
    [] value.type = "int" -> value.int # 0

\* str(value)
Str(value) ==
  CASE value.type = "str" -> value.str
    [] value.type = "NoneType" -> <<"N","o","n","e">>
    [] value.type = "int" -> Decimal(value.int)

\* What the browser answers to the calls of one fill: whether the element
\* gets visible within the timeout, and whether clearing, writing (type,
\* fill, select by value) and selecting by label go through.
Env(wait, clear, write, label) == [wait |-> wait, clear |-> clear, write |-> write, label |-> label]
EnvOk == Env(TRUE, TRUE, TRUE, TRUE)
EnvTimeout == Env(FALSE, TRUE, TRUE, TRUE)
EnvClearError == Env(TRUE, FALSE, TRUE, TRUE)
EnvValueError == Env(TRUE, TRUE, FALSE, TRUE)
EnvWriteError == Env(TRUE, TRUE, FALSE, FALSE)

\* one call of a page method: the element it acts on and whether it returns
\* (ok) or raises
PageCall(method, page, selector, arg, ok) ==
  [method |-> method, selector |-> selector, target |-> QuerySelector(page, selector),
   arg |-> arg, ok |-> ok /\ QuerySelector(page, selector) # 0]

\* page.wait_for_selector(selector, timeout=5000, state='visible')
WaitForSelector(page, selector, env) ==
  PageCall("wait_for_selector", page, selector, <<>>, env.wait)

\* page.fill(selector, text)
PageFill(page, selector, text, ok) ==
  PageCall("fill", page, selector, text,
           ok /\ QuerySelector(page, selector) # 0
              /\ Fillable(page[QuerySelector(page, selector)]))

\* page.type(selector, text, delay=50)
PageType(page, selector, text, ok) == PageCall("type", page, selector, text, ok)

\* page.select_option(selector, value=value)
SelectByValue(page, selector, value, ok) ==
  PageCall("select_option value", page, selector, Str(value),
           ok /\ value.type = "str" /\ QuerySelector(page, selector) # 0
              /\ \E k \in 1..Len(page[QuerySelector(page, selector)].options) :
                   page[QuerySelector(page, selector)].options[k].value = value.str)

\* page.select_option(selector, label=value)
SelectByLabel(page, selector, value, ok) ==
  PageCall("select_option label", page, selector, Str(value),
           ok /\ value.type = "str" /\ QuerySelector(page, selector) # 0
              /\ \E k \in 1..Len(page[QuerySelector(page, selector)].options) :
                   StrStrip(SubSpaces(page[QuerySelector(page, selector)].options[k].text))
                     = value.str)

\* ------------------------------------------------------------- FormFiller

\* variant: the calls after one that raised are made too
PerformedAll(calls) == calls

\* the calls of a sequence that are made: up to the first that raises
Performed(calls) ==
  LET bad == {k \in 1..Len(calls) : ~calls[k].ok}
  IN IF bad = {} THEN calls
     ELSE SubSeq(calls, 1, CHOOSE k \in bad : \A j \in bad : k <= j)

\* a try body that makes the calls and then returns True
TryCalls(calls) ==
  [ops |-> Performed(calls), result |-> TRUE,
   raised |-> \E k \in 1..Len(calls) : ~calls[k].ok]

Returned(ops, result) == [ops |-> ops, result |-> result, raised |-> FALSE]

\* variant: the handler lets the exception through
ExceptNothing(attempt) == attempt

\* `except Exception as e: logger.error(...); return False`
ExceptException(attempt) ==
  IF attempt.raised THEN Returned(attempt.ops, FALSE) ELSE attempt

\* _fill_input
FillInput(page, selector, field_type, value, force, env) ==
  ExceptException(TryCalls(
    <<WaitForSelector(page, selector, env)>>
    \o (IF force THEN <<PageFill(page, selector, <<>>, env.clear)>> ELSE <<>>)
    \o <<PageType(page, selector, Str(value), env.write)>>))

\* _fill_textarea
FillTextarea(page, selector, value, force, env) ==
  ExceptException(TryCalls(
    <<WaitForSelector(page, selector, env)>>
    \o (IF force THEN <<PageFill(page, selector, <<>>, env.clear)>> ELSE <<>>)
    \o <<PageFill(page, selector, Str(value), env.write)>>))

\* variant: no second attempt by label
FillSelectValueOnly(page, selector, value, env) ==
  ExceptException(TryCalls(<<WaitForSelector(page, selector, env),
                             SelectByValue(page, selector, value, env.write)>>))

\* _fill_select: by value, and when that raises, by label
FillSelect(page, selector, value, env) ==
  LET wait == WaitForSelector(page, selector, env)
      by_value == SelectByValue(page, selector, value, env.write)
      by_label == SelectByLabel(page, selector, value, env.label)
  IN ExceptException(
       IF ~wait.ok THEN TryCalls(<<wait>>)
       ELSE IF by_value.ok THEN TryCalls(<<wait, by_value>>)
       ELSE [ops |-> <<wait, by_value, by_label>>, result |-> TRUE, raised |-> ~by_label.ok])

\* variant: with force an empty value is written too
SkipsFillUnlessForce(value, force) == ~Truthy(value) /\ ~force

\* `if not value: return False`
SkipsFill(value, force) == ~Truthy(value)

\* fill_field
FillFieldCall(page, field, value, force, env) ==
  IF SkipsFill(value, force) THEN Returned(<<>>, FALSE)
  ELSE ExceptException(
         CASE field.element_type = "input" ->
                FillInput(page, field.selector, field.field_type, value, force, env)
           [] field.element_type = "textarea" ->
                FillTextarea(page, field.selector, value, force, env)
           [] field.element_type = "select" ->
                FillSelect(page, field.selector, value, env)
           [] OTHER -> Returned(<<>>, FALSE))

\* fill_form.  field_mappings is a dict keyed by descriptor objects: a
\* sequence of entries, each naming a descriptor of `fields` by its position
\* (no two entries the same descriptor), with its value and what the browser
\* answers while it is filled.  An exception leaving fill_field leaves
\* fill_form too.
RECURSIVE FillFormFrom(_, _, _, _, _, _)
FillFormFrom(page, fields, field_mappings, force, k, acc) ==
  IF k > Len(field_mappings) \/ acc.raised THEN acc
  ELSE LET Step(call) ==
             [results |-> IF call.raised THEN acc.results
                          ELSE DictSet(acc.results, fields[field_mappings[k].field].selector,
                                       call.result),
              attempts |-> Append(acc.attempts, call),
              raised |-> call.raised]
       IN Only({FillFormFrom(page, fields, field_mappings, force, k + 1, next) :
                  next \in {Step(call) :
                    call \in {FillFieldCall(page, fields[field_mappings[k].field],
                                            field_mappings[k].value, force,
                                            field_mappings[k].env)}}})

\* the dict fill_form returns and the two numbers of its "Filled N/M" line
FillFormCall(page, fields, field_mappings, force) ==
  LET Report(done) ==
        [results |-> done.results, attempts |-> done.attempts, raised |-> done.raised,
         success_count |-> Cardinality({sel \in DOMAIN done.results : done.results[sel]}),
         total |-> Cardinality(DOMAIN done.results)]
  IN Only({Report(done) :
             done \in {FillFormFrom(page, fields, field_mappings, force, 1,
                                    [results |-> EmptyDict, attempts |-> <<>>,
                                     raised |-> FALSE])}})

\* ------------------------------------------------------- PlaywrightManager

\* PlaywrightManager.__init__: playwright, browser and context are None
NewManager == [playwright |-> "None", browser |-> "None", context |-> "None", is_running |-> FALSE]

\* what runs on the machine: Playwright drivers and browser processes that
\* were started and not stopped, and the pages open in the manager's context
NoProcesses == [drivers |-> 0, browsers |-> 0, pages |-> 0]

\* where a start() may fail, where a stop() may fail
StartFailures == {"none", "playwright", "launch", "context"}
StopFailures == {"none", "context", "browser", "playwright"}

\* one call of a manager method: the manager and the machine after it
ManagerCall(mgr, procs, launched, raised) ==
  [mgr |-> mgr, procs |-> procs, launched |-> launched, raised |-> raised]

\* start(), the try block: async_playwright().start(), chromium.launch(),
\* browser.new_context(), _is_running = True.  Each assignment replaces what
\* the field held; an exception is logged and raised again, with the fields
\* assigned so far kept.
StartBody(mgr, procs, failure) ==
  IF failure = "playwright" THEN ManagerCall(mgr, procs, 0, TRUE)
  ELSE IF failure = "launch"
  THEN ManagerCall([mgr EXCEPT !.playwright = "started"],
                   [procs EXCEPT !.drivers = @ + 1], 0, TRUE)
  ELSE IF failure = "context"
  THEN ManagerCall([mgr EXCEPT !.playwright = "started", !.browser = "open"],
                   [procs EXCEPT !.drivers = @ + 1, !.browsers = @ + 1], 1, TRUE)
  ELSE ManagerCall([playwright |-> "started", browser |-> "open", context |-> "open",
                    is_running |-> TRUE],
                   [procs EXCEPT !.drivers = @ + 1, !.browsers = @ + 1], 1, FALSE)

\* start(): `if self._is_running: return`, else the try block
StartCall(mgr, procs, failure) ==
  IF mgr.is_running THEN ManagerCall(mgr, procs, 0, FALSE)
  ELSE StartBody(mgr, procs, failure)

\* stop(): nothing when not _is_running; else context.close(),
\* browser.close(), playwright.stop(), _is_running = False.  An exception
\* is logged and not raised; what was closed before it stays closed.
\* Closing what is closed already does nothing.
StopCall(mgr, procs, failure) ==
  IF ~mgr.is_running \/ failure = "context" THEN ManagerCall(mgr, procs, 0, FALSE)
  ELSE LET m1 == [mgr EXCEPT !.context = IF @ = "None" THEN @ ELSE "closed"]
           p1 == [procs EXCEPT !.pages = 0]
           m2 == [m1 EXCEPT !.browser = IF @ = "None" THEN @ ELSE "closed"]
           p2 == [p1 EXCEPT !.browsers = IF mgr.browser = "open" THEN @ - 1 ELSE @]
           m3 == [m2 EXCEPT !.playwright = IF @ = "None" THEN @ ELSE "stopped",
                            !.is_running = FALSE]
           p3 == [p2 EXCEPT !.drivers = IF mgr.playwright = "started" THEN @ - 1 ELSE @]
       IN IF failure = "browser" THEN ManagerCall(m1, p1, 0, FALSE)
          ELSE IF failure = "playwright" THEN ManagerCall(m2, p2, 0, FALSE)
          ELSE ManagerCall(m3, p3, 0, FALSE)

\* new_page(): start() when not running, then context.new_page(), which
\* raises on a closed context or when the browser does not answer
\* (page_ok false).  opened: a page was opened.
NewPageCall(mgr, procs, failure, page_ok) ==
  LET Open(started) ==
        IF started.raised THEN started @@ [opened |-> FALSE]
        ELSE IF page_ok /\ started.mgr.context = "open"
        THEN [started EXCEPT !.procs.pages = @ + 1] @@ [opened |-> TRUE]
        ELSE [started EXCEPT !.raised = TRUE] @@ [opened |-> FALSE]
  IN CHOOSE r \in {Open(started) :
                     started \in {IF ~mgr.is_running \/ mgr.context = "None"
                                  THEN StartCall(mgr, procs, failure)
                                  ELSE ManagerCall(mgr, procs, 0, FALSE)}} : TRUE

\* navigate_to(page, url): page.goto(url, wait_until='domcontentloaded'),
\* then page.wait_for_load_state('networkidle', timeout=10000), both inside
\* one try; True when both return, False when either raises
NavigateToCall(goto_ok, idle_ok) ==
  [calls |-> IF goto_ok THEN <<"goto", "wait_for_load_state">> ELSE <<"goto">>,
   loaded |-> goto_ok, result |-> goto_ok /\ idle_ok, raised |-> FALSE]

\* the lists of at most n descriptors
RECURSIVE SeqsUpTo(_, _)
SeqsUpTo(S, n) ==
  IF n = 0 THEN {<<>>}
  ELSE LET shorter == SeqsUpTo(S, n - 1)
       IN shorter \cup {Append(s, x) : s \in {t \in shorter : Len(t) = n - 1}, x \in S}

\* ---------------------------------------------------------------- bounds

\* calls of spacy.load counted before the model stops counting
MaxLoads == 3
\* descriptors in one match_fields call
MaxBatch == 2

\* the descriptors match_fields is called with
BatchDescriptors == {Descriptors[k] : k \in {2, 4, 5, 6}}

\* elements of a served document
MaxElems == 2

\* drivers started and not stopped before the model stops starting more
MaxProcesses == 2
\* pages open before the model stops opening more
MaxOpenPages == 2
\* applications created before the model stops creating more
MaxApplications == 2

\* the documents a page is navigated to
Pages == SeqsUpTo(Elements, MaxElems) \ {<<>>}

\* detect_form_fields on each document, for each set of failing positions
DetectFormFieldsOf ==
  [c \in (Pages \cup {<<>>}) \X (SUBSET (1..MaxElems)) |-> DetectFormFields(c[1], c[2])]

\* ----------------------------------------------------- the new-application UI

\* the URLs typed into the form
UrlNone == <<>>
UrlNoScheme == <<"a",".","i","o","/","x">>
UrlNoHost == <<"h","t","t","p",":","/","/">>
UrlJob == <<"h","t","t","p","s",":","/","/","a",".","i","o","/","x">>
UrlFtp == <<"f","t","p",":","/","/","a",".","i","o">>
Urls == {UrlNone, UrlNoScheme, UrlNoHost, UrlJob, UrlFtp}

\* the first position from `first` on of a character of `chars`, Len(s) + 1
\* when there is none
RECURSIVE PositionOf(_, _, _)
PositionOf(s, chars, first) ==
  IF first > Len(s) THEN Len(s) + 1
  ELSE IF s[first] \in chars THEN first
  ELSE PositionOf(s, chars, first + 1)

\* urllib.parse.urlparse(url), its scheme and netloc: the scheme is what
\* stands before the first ':' when that begins with a letter and holds
\* letters, digits, '+', '-' and '.' only; the netloc is what follows a
\* leading '//' of the rest, up to the next '/', '?' or '#'
UrlParse(url) ==
  LET colon == PositionOf(url, {":"}, 1)
      has_scheme ==
        /\ 1 < colon
        /\ colon <= Len(url)
        /\ url[1] \in Range(LowerChars) \cup Range(UpperChars)
        /\ \A k \in 1..(colon - 1) :
             url[k] \in Range(LowerChars) \cup Range(UpperChars) \cup Range(DigitChars)
                          \cup {"+", "-", "."}
      rest == IF has_scheme THEN SubSeq(url, colon + 1, Len(url)) ELSE url
      has_netloc == Len(rest) >= 2 /\ rest[1] = "/" /\ rest[2] = "/"
  IN [scheme |-> IF has_scheme THEN StrLower(SubSeq(url, 1, colon - 1)) ELSE <<>>,
      netloc |-> IF has_netloc
                 THEN SubSeq(rest, 3, PositionOf(rest, {"/", "?", "#"}, 3) - 1)
                 ELSE <<>>]

\* variant: any text is taken for a URL
IsValidUrlAnyText(url) == url # <<>>

\* is_valid_url: `if not url: return False`, else
\* `all([result.scheme, result.netloc])`
IsValidUrl(url) ==
  IF url = <<>> THEN FALSE
  ELSE UrlParse(url).scheme # <<>> /\ UrlParse(url).netloc # <<>>

\* what the browser answers during one detect_and_match_fields: where
\* start() fails, whether the page opens, whether the document reaches
\* DOM-content-loaded, whether the network gets idle within the timeout
FlowEnv(start, page_ok, goto_ok, idle_ok) ==
  [start |-> start, page_ok |-> page_ok, goto_ok |-> goto_ok, idle_ok |-> idle_ok]
FlowEnvs ==
  {FlowEnv("none", TRUE, TRUE, TRUE), FlowEnv("none", TRUE, TRUE, FALSE),
   FlowEnv("none", TRUE, FALSE, TRUE), FlowEnv("context", TRUE, TRUE, TRUE)}

\* the documents the job URLs serve: one without any element, one with a
\* field
FlowDocuments == {<<>>, <<ElEmail>>}

\* detect_and_match_fields(url, profile) with a profile: what it returns
\* (detected_fields, field_mappings), what it leaves of the matcher, the
\* manager and the machine, and how far it got: opened (a page was opened),
\* went (page.goto was called), loaded (DOM-content-loaded was reached),
\* success (what navigate_to returned), error (the handler showed "Error
\* detecting fields")
DetectAndMatchFieldsCall(eng, available, mgr, procs, env, document, detached) ==
  LET init == InitializeCall(eng, available)
      started == StartCall(mgr, procs, env.start)
      opened == NewPageCall(started.mgr, started.procs, env.start, env.page_ok)
      nav == NavigateToCall(env.goto_ok, env.idle_ok)
      Outcome(batch, m, p, is_open, went, found, error) ==
        [eng |-> batch.eng, loads |-> (IF init.loaded THEN 1 ELSE 0) + batch.loads,
         failed |-> init.failed \/ batch.failed,
         mgr |-> m, procs |-> p, opened |-> is_open, went |-> went,
         loaded |-> went /\ nav.loaded, success |-> went /\ nav.result,
         detect |-> went /\ nav.result,
         detected_fields |-> found.fields, from |-> found.from,
         field_mappings |-> batch.matches, error |-> error]
      NoBatchCall == [eng |-> init.eng, loads |-> 0, failed |-> FALSE, matches |-> EmptyDict]
      NoFields == [fields |-> <<>>, from |-> <<>>, raised |-> FALSE]
  IN IF started.raised
     THEN Outcome(NoBatchCall, started.mgr, started.procs, FALSE, FALSE, NoFields, TRUE)
     ELSE IF opened.raised
     THEN Outcome(NoBatchCall, opened.mgr, opened.procs, FALSE, FALSE, NoFields, TRUE)
     ELSE IF ~nav.result
     THEN Outcome(NoBatchCall, opened.mgr, opened.procs, TRUE, TRUE, NoFields, FALSE)
     ELSE Only({Outcome(batch, opened.mgr, opened.procs, TRUE, TRUE,
                        DetectFormFieldsOf[<<document, detached>>], FALSE) :
                  batch \in {MatchFieldsCall(init.eng, available,
                                             DetectFormFieldsOf[<<document, detached>>].fields)}})

\* what render_field_detection shows for a result of detect_and_match_fields
\* (error: the handler of detect_and_match_fields has shown its message)
DetectionMessages(detected_fields, error) ==
  IF detected_fields = <<>>
  THEN (IF error THEN {"Error detecting fields"} ELSE {})
         \cup {"Could not detect any form fields on this page"}
  ELSE {"Detected N form fields"}

\* what a run of the script shows: the messages and the buttons
Screen(messages, buttons) == [messages |-> messages, buttons |-> buttons]

\* reset_application_state
ResetApplicationState ==
  [application_step |-> "url_input", current_application_id |-> 0,
   detected_fields |-> <<>>, field_mappings |-> EmptyDict]

\* ------------------------------------------------------ ApplicationService

\* the applications table by id: the status of each row, "deleted" for a row
\* that is no longer there.  update_application(application_id, status=...):
\* None when no row has the id, else the row with the status set
UpdateApplication(rows, application_id, status) ==
  IF application_id \in 1..Len(rows) /\ rows[application_id] # "deleted"
  THEN [rows |-> [rows EXCEPT ![application_id] = status], found |-> TRUE]
  ELSE [rows |-> rows, found |-> FALSE]

\* get_application(application_id) is not None
ApplicationExists(rows, application_id) ==
  application_id \in 1..Len(rows) /\ rows[application_id] # "deleted"

\* ---------------------------------------------------------- ProfileService

\* the columns of a profile that profile_to_dict reads: the 21 attributes
\* and custom_fields (JSON, nullable: <<>> for None, <<d>> for the dict d)
CanonicalAttributes ==
  {"first_name", "last_name", "email", "phone", "address_line1", "address_line2", "city",
   "state", "zip_code", "country", "linkedin_url", "github_url", "portfolio_url",
   "current_company", "current_title", "years_of_experience", "education_level",
   "university", "major", "graduation_year", "gpa"}
ProfileColumns == CanonicalAttributes \cup {"custom_fields"}

\* profile_to_dict(profile); `rows` is what get_profile found, <<>> for None:
\* the 21 attributes, then `**(profile.custom_fields or {})`, whose keys
\* replace equal keys before them
ProfileToDict(rows) ==
  IF rows = <<>> THEN EmptyDict
  ELSE LET custom == IF rows[1]["custom_fields"] = <<>> THEN EmptyDict
                     ELSE rows[1]["custom_fields"][1]
       IN [k \in CanonicalAttributes \cup DOMAIN custom |->
             IF k \in DOMAIN custom THEN custom[k] ELSE rows[1][k]]

\* the profile_data a caller creates or updates a profile with
ProfileData ==
  {[email |-> "me@a.io"], [email |-> "new@a.io", phone |-> "555"],
   [custom_fields |-> <<>>], [custom_fields |-> <<EmptyDict>>],
   [custom_fields |-> <<[nickname |-> "Al"]>>],
   [custom_fields |-> <<[email |-> "alias@b.io"]>>]}

\* the values fill_field is called with
Values == {PyStr(<<>>), PyNone, PyInt(0), PyStr(TxtBachelor), PyStr(TxtBsc)}

\* what the browser may answer during a fill_field, and during the fill of
\* one entry of a fill_form
Envs == {EnvOk, EnvTimeout, EnvClearError, EnvValueError, EnvWriteError}
FormEnvs == {EnvOk, EnvTimeout, EnvWriteError}

\* what a field_mappings dict may hold for one descriptor: nothing, an
\* empty value, or a value with the browser's answers
Absent == [value |-> PyNone, env |-> EnvOk, present |-> FALSE]
EntryChoices ==
  {Absent, [value |-> PyStr(<<>>), env |-> EnvOk, present |-> TRUE]}
  \cup {[value |-> PyStr(TxtBachelor), env |-> e, present |-> TRUE] : e \in FormEnvs}

\* the field_mappings dict with the chosen entry for each descriptor, in the
\* order of detection
RECURSIVE FieldMappingsFrom(_, _, _)
FieldMappingsFrom(choice, i, acc) ==
  IF i > Len(choice) THEN acc
  ELSE FieldMappingsFrom(choice, i + 1,
         IF choice[i].present
         THEN Append(acc, [field |-> i, value |-> choice[i].value, env |-> choice[i].env])
         ELSE acc)

FieldMappings(choice) == FieldMappingsFrom(choice, 1, <<>>)

\* ----------------------------------------------------------------- state

VARIABLES
  nlp,             \* FieldMatcher.nlp is not None
  matcher,         \* FieldMatcher.matcher is not None
  initialized,     \* FieldMatcher._initialized
  modelAvailable,  \* environment: spacy.load(settings.SPACY_MODEL) would succeed
  loads,           \* history: calls of spacy.load so far
  everFailed,      \* history: some initialize() has failed
  m_last,          \* history: the last call of match_field
  firstResult,     \* history: per descriptor, what its first match_field returned
  b_last,          \* history: the last call of match_fields
  page,            \* the document of the open page, <<>> before navigation
  detected,        \* the descriptors of the last detect_form_fields
  d_last,          \* history: the last call of detect_form_fields
  f_last,          \* history: the last call of fill_field or fill_form
  manager,         \* browser_manager: playwright, browser, context, _is_running
  processes,       \* environment: drivers and browsers running, pages open
  n_last,          \* history: the last call of a PlaywrightManager method
  session_state,   \* st.session_state: application_step, current_application_id, ...
  applications,    \* the applications table: the job_url of application 1, 2, ...
  store,           \* the applications table: the status of application 1, 2, ...
  screen,          \* what the last run of the script showed
  r_last,          \* history: the last form submitted or detect_and_match_fields run
  profiles,        \* the profiles table: the rows of the current user, none or one
  p_last           \* history: the last call of profile_to_dict

matcherVars == <<nlp, matcher, initialized, modelAvailable, loads, everFailed, m_last, firstResult, b_last>>
fillerVars == <<page, detected, d_last, f_last>>
browserVars == <<manager, processes, n_last>>
flowVars == <<session_state, applications, store, screen, r_last>>
profileVars == <<profiles, p_last>>
vars == <<matcherVars, fillerVars, browserVars, flowVars, profileVars>>

Engine == [nlp |-> nlp, matcher |-> matcher, initialized |-> initialized]

NoCall == [op |-> "none", field |-> 0, text |-> <<>>, semantic |-> NoMatch,
           strategy |-> "none", result |-> NoMatch, engine |-> NewMatcher]
NoBatch == [op |-> "none", form_fields |-> <<>>, matches |-> EmptyDict,
            before |-> NewMatcher, available |-> FALSE]
NotAsked == [field |-> "not asked", score |-> Zero]

NoFill == [op |-> "none"]
NoDetect == [op |-> "none", detached |-> {}, from |-> <<>>, raised |-> FALSE]

FillerInit ==
  /\ page = <<>>
  /\ detected = <<>>
  /\ d_last = NoDetect
  /\ f_last = NoFill

MatcherInit ==
  /\ nlp = NewMatcher.nlp
  /\ matcher = NewMatcher.matcher
  /\ initialized = NewMatcher.initialized
  /\ modelAvailable \in BOOLEAN
  /\ loads = 0
  /\ everFailed = FALSE
  /\ m_last = NoCall
  /\ firstResult = [k \in 1..Len(Descriptors) |-> NotAsked]
  /\ b_last = NoBatch

SetEngine(eng) ==
  /\ nlp' = eng.nlp
  /\ matcher' = eng.matcher
  /\ initialized' = eng.initialized

\* a caller calls field_matcher.initialize()
Initialize ==
  \E call \in {InitializeCall(Engine, modelAvailable)} :
     /\ call.loaded => loads < MaxLoads
     /\ SetEngine(call.eng)
     /\ loads' = loads + (IF call.loaded THEN 1 ELSE 0)
     /\ everFailed' = (everFailed \/ call.failed)
     /\ UNCHANGED <<modelAvailable, m_last, firstResult, b_last, fillerVars, browserVars, flowVars, profileVars>>

\* a caller calls field_matcher.match_field(Descriptors[k])
MatchField(k) ==
  \E call \in {MatchFieldCall(Engine, modelAvailable, Descriptors[k])} :
     /\ call.loaded => loads < MaxLoads
     /\ SetEngine(call.eng)
     /\ loads' = loads + (IF call.loaded THEN 1 ELSE 0)
     /\ everFailed' = (everFailed \/ call.failed)
     /\ m_last' = [op |-> "match_field", field |-> k, text |-> call.text,
                   semantic |-> call.semantic, strategy |-> call.strategy,
                   result |-> call.result, engine |-> call.eng]
     /\ firstResult' = IF firstResult[k] = NotAsked
                       THEN [firstResult EXCEPT ![k] = call.result]
                       ELSE firstResult
     /\ UNCHANGED <<modelAvailable, b_last, fillerVars, browserVars, flowVars, profileVars>>

\* a caller calls field_matcher.match_fields(form_fields); the loop has no
\* await, so the call is one step
MatchFields(form_fields) ==
  \E call \in {MatchFieldsCall(Engine, modelAvailable, form_fields)} :
     /\ loads + call.loads <= MaxLoads
     /\ SetEngine(call.eng)
     /\ loads' = loads + call.loads
     /\ everFailed' = (everFailed \/ call.failed)
     /\ b_last' = [op |-> "match_fields", form_fields |-> form_fields,
                   matches |-> call.matches, before |-> Engine, available |-> modelAvailable]
     /\ UNCHANGED <<modelAvailable, m_last, firstResult, fillerVars, browserVars, flowVars, profileVars>>

\* environment: the spaCy model becomes loadable (installed, a transient
\* failure is over) or stops being loadable
ModelInstalled ==
  /\ ~modelAvailable
  /\ modelAvailable' = TRUE
  /\ UNCHANGED <<nlp, matcher, initialized, loads, everFailed, m_last, firstResult, b_last, fillerVars, browserVars, flowVars, profileVars>>

ModelRemoved ==
  /\ modelAvailable
  /\ modelAvailable' = FALSE
  /\ UNCHANGED <<nlp, matcher, initialized, loads, everFailed, m_last, firstResult, b_last, fillerVars, browserVars, flowVars, profileVars>>

\* page.goto(url): the browser loads a document into the fresh page; the
\* descriptors the caller holds are those of the loaded document only
Goto(document) ==
  /\ page = <<>>
  /\ page' = document
  /\ detected' = <<>>
  /\ d_last' = NoDetect
  /\ UNCHANGED <<f_last, matcherVars, browserVars, flowVars, profileVars>>

\* a caller calls page_analyzer.detect_form_fields(page); the elements at
\* the positions `detached` fail while they are read
Detect(detached) ==
  /\ \E call \in {DetectFormFieldsOf[<<page, detached>>]} :
     /\ detected' = call.fields
     /\ d_last' = [op |-> "detect", detached |-> detached, from |-> call.from,
                   raised |-> call.raised]
  /\ f_last' = NoFill
  /\ UNCHANGED <<page, matcherVars, browserVars, flowVars, profileVars>>

\* a caller calls form_filler.fill_field(page, detected[i], value, force).
\* A fill leaves the document of the model as it is, so one fill after each
\* detection reaches every outcome.
FillField(i, value, force, env) ==
  /\ f_last = NoFill
  /\ \E call \in {FillFieldCall(page, detected[i], value, force, env)} :
     /\ f_last' = [op |-> "fill_field", field |-> i, value |-> value, force |-> force,
                   env |-> env, ops |-> call.ops, result |-> call.result,
                   raised |-> call.raised]
     /\ UNCHANGED <<page, detected, d_last, matcherVars, browserVars, flowVars, profileVars>>

\* a caller calls form_filler.fill_form(page, field_mappings, force)
FillForm(field_mappings, force) ==
  /\ f_last = NoFill
  /\ \E call \in {FillFormCall(page, detected, field_mappings, force)} :
     /\ f_last' = [op |-> "fill_form", field_mappings |-> field_mappings, force |-> force,
                   attempts |-> call.attempts, results |-> call.results,
                   raised |-> call.raised, success_count |-> call.success_count,
                   total |-> call.total]
     /\ UNCHANGED <<page, detected, d_last, matcherVars, browserVars, flowVars, profileVars>>

\* browser_manager = PlaywrightManager()
NoManagerCall ==
  [op |-> "none", before |-> NewManager, procs |-> NoProcesses, launched |-> 0,
   raised |-> FALSE, result |-> FALSE, loaded |-> FALSE,
   prev |-> [op |-> "none", raised |-> FALSE]]

BrowserInit ==
  /\ manager = NewManager
  /\ processes = NoProcesses
  /\ n_last = NoManagerCall

\* what n_last keeps of a call
ManagerDid(op, call, result, loaded) ==
  [op |-> op, before |-> manager, procs |-> processes, launched |-> call.launched,
   raised |-> call.raised, result |-> result, loaded |-> loaded,
   prev |-> [op |-> n_last.op, raised |-> n_last.raised]]

\* a caller awaits browser_manager.start(); the start fails at `failure`
Start(failure) ==
  \E call \in {StartCall(manager, processes, failure)} :
     /\ call.procs.drivers <= MaxProcesses
     /\ manager' = call.mgr
     /\ processes' = call.procs
     /\ n_last' = ManagerDid("start", call, FALSE, FALSE)
     /\ UNCHANGED <<matcherVars, fillerVars, flowVars, profileVars>>

\* a caller awaits browser_manager.stop(); the stop fails at `failure`
Stop(failure) ==
  \E call \in {StopCall(manager, processes, failure)} :
     /\ manager' = call.mgr
     /\ processes' = call.procs
     /\ n_last' = ManagerDid("stop", call, FALSE, FALSE)
     /\ UNCHANGED <<matcherVars, fillerVars, flowVars, profileVars>>

\* a caller awaits browser_manager.new_page()
NewPage(failure, page_ok) ==
  \E call \in {NewPageCall(manager, processes, failure, page_ok)} :
     /\ call.procs.drivers <= MaxProcesses
     /\ call.procs.pages <= MaxOpenPages
     /\ manager' = call.mgr
     /\ processes' = call.procs
     /\ n_last' = ManagerDid("new_page", call, call.opened, FALSE)
     /\ UNCHANGED <<matcherVars, fillerVars, flowVars, profileVars>>

\* a caller awaits browser_manager.close_page(page) with a page it holds:
\* page.close(); an exception is logged and not raised
ClosePage(close_ok) ==
  /\ processes.pages > 0
  /\ processes' = IF close_ok THEN [processes EXCEPT !.pages = @ - 1] ELSE processes
  /\ n_last' = ManagerDid("close_page", [launched |-> 0, raised |-> FALSE], FALSE, FALSE)
  /\ UNCHANGED <<manager, matcherVars, fillerVars, flowVars, profileVars>>

\* a caller awaits browser_manager.navigate_to(page, url) with a page it
\* holds; goto_ok: the document reaches DOM-content-loaded; idle_ok: the
\* network gets idle within the 10 s
NavigateTo(goto_ok, idle_ok) ==
  /\ processes.pages > 0
  /\ \E call \in {NavigateToCall(goto_ok, idle_ok)} :
     /\ n_last' = ManagerDid("navigate_to", [launched |-> 0, raised |-> call.raised],
                             call.result, call.loaded)
     /\ UNCHANGED <<manager, processes, matcherVars, fillerVars, flowVars, profileVars>>

\* the session state render_new_application sets up, and an empty table
NoRun == [op |-> "none"]

FlowInit ==
  /\ session_state = ResetApplicationState
  /\ applications = <<>>
  /\ store = <<>>
  /\ screen = Screen({}, {})
  /\ r_last = NoRun

\* render_url_input with the form submitted: an empty or invalid job_url is
\* answered with an error; else the application is created and the script
\* runs again at the field detection step
RenderUrlInput(job_url) ==
  /\ session_state.application_step = "url_input"
  /\ IF job_url = <<>>
     THEN /\ screen' = Screen({"Please enter a job application URL"}, {})
          /\ UNCHANGED <<session_state, applications, store>>
     ELSE IF ~IsValidUrl(job_url)
     THEN /\ screen' = Screen({"Please enter a valid URL"}, {})
          /\ UNCHANGED <<session_state, applications, store>>
     ELSE /\ Len(applications) < MaxApplications
          /\ applications' = Append(applications, job_url)
          /\ store' = Append(store, "draft")
          /\ session_state' = [session_state EXCEPT
                                 !.current_application_id = Len(applications) + 1,
                                 !.application_step = "field_detection"]
          /\ screen' = Screen({}, {})
  /\ r_last' = [op |-> "url_input", url |-> job_url, before |-> applications]
  /\ UNCHANGED <<matcherVars, fillerVars, browserVars, profileVars>>

\* render_field_detection, run by a rerun (click "none") or by the click
\* of a button the screen shows.  The detection runs before the script
\* reaches its buttons, so it runs on every click too; a click is handled
\* when this run shows its button.  The URL serves `document`.  Without a
\* profile the run shows "No profile found", and when the application is no
\* longer in the table "Application not found"; both end the run before
\* the detection and before the buttons of the step.
RenderFieldDetection(click, env, document, detached) ==
  /\ session_state.application_step = "field_detection"
  /\ click = "none" \/ click \in screen.buttons
  /\ (profiles = <<>> \/ ~ApplicationExists(store, session_state.current_application_id)) =>
       /\ screen' = Screen({IF profiles = <<>> THEN "No profile found"
                            ELSE "Application not found"}, {})
       /\ r_last' = [op |-> "field_detection", click |-> click,
                     application_id |-> session_state.current_application_id]
       /\ UNCHANGED <<session_state, nlp, matcher, initialized, loads, everFailed, b_last,
                      fillerVars, manager, processes>>
  /\ (profiles # <<>> /\ ApplicationExists(store, session_state.current_application_id)) => \E call \in {DetectAndMatchFieldsCall(Engine, modelAvailable, manager, processes, env,
                                           document, detached)} :
     /\ loads + call.loads <= MaxLoads
     /\ call.procs.drivers <= MaxProcesses
     /\ call.procs.pages <= MaxOpenPages
     /\ SetEngine(call.eng)
     /\ loads' = loads + call.loads
     /\ everFailed' = (everFailed \/ call.failed)
     /\ b_last' = IF call.detect
                  THEN [op |-> "match_fields", form_fields |-> call.detected_fields,
                        matches |-> call.field_mappings, before |-> Engine,
                        available |-> modelAvailable]
                  ELSE b_last
     /\ manager' = call.mgr
     /\ processes' = call.procs
     /\ page' = IF call.loaded THEN document ELSE IF call.opened THEN <<>> ELSE page
     /\ detected' = IF call.opened THEN call.detected_fields ELSE detected
     /\ d_last' = IF call.detect
                  THEN [op |-> "detect", detached |-> detached, from |-> call.from,
                        raised |-> FALSE]
                  ELSE IF call.opened THEN NoDetect ELSE d_last
     /\ f_last' = IF call.opened THEN NoFill ELSE f_last
     /\ r_last' = [op |-> "detect_and_match_fields", click |-> click,
                   url |-> applications[session_state.current_application_id],
                   opened |-> call.opened,
                   went |-> call.went, loaded |-> call.loaded, success |-> call.success,
                   detected_fields |-> call.detected_fields,
                   field_mappings |-> call.field_mappings, error |-> call.error,
                   messages |-> DetectionMessages(call.detected_fields, call.error)]
     /\ IF call.detected_fields = <<>>
        THEN /\ screen' = Screen(DetectionMessages(call.detected_fields, call.error),
                                 {"Try Again", "Back"})
             /\ session_state' = IF click = "Back"
                                 THEN [session_state EXCEPT !.application_step = "url_input"]
                                 ELSE session_state
        ELSE /\ screen' = Screen(DetectionMessages(call.detected_fields, call.error),
                                 {"Back", "Continue to Review"})
             /\ session_state' =
                  [session_state EXCEPT
                     !.detected_fields = call.detected_fields,
                     !.field_mappings = call.field_mappings,
                     !.application_step = IF click = "Back" THEN "url_input"
                                          ELSE IF click = "Continue to Review" THEN "review"
                                          ELSE @]
  /\ UNCHANGED <<modelAvailable, m_last, firstResult, n_last, applications, store, profileVars>>

\* render_review, run by a rerun or by the click of one of its buttons:
\* Mark as Submitted calls submit_application and Skip This Application
\* skip_application, each shows its message whatever the call returned, and
\* these two and Save as Draft reset the session state
RenderReview(click) ==
  /\ session_state.application_step = "review"
  /\ click = "none" \/ click \in screen.buttons
  /\ screen' = Screen({}, {"Mark as Submitted", "Skip This Application", "Save as Draft"})
  /\ session_state' = IF click \in {"Mark as Submitted", "Skip This Application", "Save as Draft"}
                      THEN ResetApplicationState
                      ELSE session_state
  /\ \E call \in {IF click = "Mark as Submitted"
                   THEN UpdateApplication(store, session_state.current_application_id,
                                          "submitted")
                   ELSE IF click = "Skip This Application"
                   THEN UpdateApplication(store, session_state.current_application_id,
                                          "skipped")
                   ELSE [rows |-> store, found |-> FALSE]} :
       /\ store' = call.rows
       /\ r_last' = IF click \in {"Mark as Submitted", "Skip This Application", "Save as Draft"}
                    THEN [op |-> "review", click |-> click,
                          application_id |-> session_state.current_application_id,
                          messages |-> {CASE click = "Mark as Submitted" ->
                                               "Application marked as submitted!"
                                          [] click = "Skip This Application" ->
                                               "Application marked as skipped"
                                          [] OTHER -> "Application saved as draft"}]
                    ELSE r_last
  /\ UNCHANGED <<applications, matcherVars, fillerVars, browserVars, profileVars>>

\* the dashboard, the card of an application that is in the table: the
\* click of Delete calls delete_application(app.id).  The session state of
\* the new-application page stays as it is while the dashboard is shown.
DeleteApplication(application_id) ==
  /\ ApplicationExists(store, application_id)
  /\ store' = [store EXCEPT ![application_id] = "deleted"]
  /\ r_last' = [op |-> "delete_application", application_id |-> application_id]
  /\ UNCHANGED <<session_state, applications, screen, matcherVars, fillerVars, browserVars,
                 profileVars>>

\* a caller awaits profile_service.create_profile(user_id, profile_data): the
\* existing profile is returned as it is; else Profile(user_id=user_id,
\* **profile_data) is added, its other columns None
CreateProfile(profile_data) ==
  /\ profiles' = IF profiles # <<>> THEN profiles
                 ELSE <<[c \in ProfileColumns |->
                           IF c \in DOMAIN profile_data THEN profile_data[c]
                           ELSE IF c = "custom_fields" THEN <<>> ELSE None]>>
  /\ UNCHANGED <<p_last, matcherVars, fillerVars, browserVars, flowVars>>

\* a caller awaits profile_service.update_profile(user_id, profile_data):
\* None without a profile; else every key that is a column is set
UpdateProfile(profile_data) ==
  /\ profiles' = IF profiles = <<>> THEN profiles
                 ELSE <<[c \in ProfileColumns |->
                           IF c \in DOMAIN profile_data THEN profile_data[c]
                           ELSE profiles[1][c]]>>
  /\ UNCHANGED <<p_last, matcherVars, fillerVars, browserVars, flowVars>>

\* render_review, lines 208-212: profile = get_profile(...), then
\* profile_dict = profile_service.profile_to_dict(profile)
ProfileToDictCall ==
  /\ p_last' = [op |-> "profile_to_dict", profile |-> profiles,
                result |-> ProfileToDict(profiles)]
  /\ UNCHANGED <<profiles, matcherVars, fillerVars, browserVars, flowVars>>

\* the state of a new installation; its profiles table is empty
Init ==
  /\ MatcherInit /\ FillerInit /\ BrowserInit /\ FlowInit
  /\ profiles = <<>>
  /\ p_last = [op |-> "none"]

NextMatcher ==
  \/ Initialize
  \/ \E k \in 1..Len(Descriptors) : MatchField(k)
  \/ ModelInstalled
  \/ ModelRemoved

SpecMatcher == Init /\ [][NextMatcher]_vars

NextMatchFields ==
  \/ Initialize
  \/ \E form_fields \in SeqsUpTo(BatchDescriptors, MaxBatch) : MatchFields(form_fields)
  \/ ModelInstalled
  \/ ModelRemoved

SpecMatchFields == Init /\ [][NextMatchFields]_vars

\* the documents that are filled: a fill reads no label and no value of the
\* document, so the two elements that differ from the others in these only
\* are left to detection
FilledPages == SeqsUpTo(Elements \ {ElNotes, ElTel}, MaxElems) \ {<<>>}

NextFiller ==
  \/ \E document \in FilledPages : Goto(document)
  \/ Detect({})
  \/ \E i \in 1..Len(detected) : \E value \in Values, force \in BOOLEAN, env \in Envs :
       FillField(i, value, force, env)
  \/ \E choice \in [1..Len(detected) -> EntryChoices] : \E force \in BOOLEAN :
       FillForm(FieldMappings(choice), force)

SpecFiller == Init /\ [][NextFiller]_vars

\* detection alone, with every set of elements failing while they are read
\* (the fills of SpecFiller follow a detection in which no element failed)
NextDetect ==
  \/ \E document \in Pages : Goto(document)
  \/ \E detached \in SUBSET (1..Len(page)) : Detect(detached)

SpecDetect == Init /\ [][NextDetect]_vars

\* the browser manager called directly
NextManager ==
  \/ \E failure \in StartFailures : Start(failure)
  \/ \E failure \in StopFailures : Stop(failure)
  \/ \E failure \in StartFailures, page_ok \in BOOLEAN : NewPage(failure, page_ok)
  \/ \E close_ok \in BOOLEAN : ClosePage(close_ok)
  \/ \E goto_ok, idle_ok \in BOOLEAN : NavigateTo(goto_ok, idle_ok)

SpecManager == Init /\ [][NextManager]_vars

\* the profile service
NextProfile ==
  \/ \E profile_data \in ProfileData : CreateProfile(profile_data)
  \/ \E profile_data \in ProfileData : UpdateProfile(profile_data)
  \/ ProfileToDictCall

SpecProfile == Init /\ [][NextProfile]_vars

\* the profile the user of the new-application page has set up
FlowProfileData == [email |-> "me@a.io"]

\* the new-application page: each step is one run of the script
Clicks == {"none", "Try Again", "Back", "Continue to Review", "Mark as Submitted",
           "Skip This Application", "Save as Draft"}

NextFlow ==
  \/ CreateProfile(FlowProfileData)
  \/ \E job_url \in Urls : RenderUrlInput(job_url)
  \/ \E click \in Clicks, env \in FlowEnvs, document \in FlowDocuments :
       \E detached \in SUBSET (1..Len(document)) :
         RenderFieldDetection(click, env, document, detached)
  \/ \E click \in Clicks : RenderReview(click)
  \/ \E application_id \in 1..Len(store) : DeleteApplication(application_id)

SpecFlow == Init /\ [][NextFlow]_vars

\* ---------------------------------------------------------------------------
\* Properties of the field matcher

\* some vocabulary phrase occurs in the normalized text
SomePhraseIn(field_text) ==
  \E k \in 1..Len(PatternList) : Contains(field_text, PatternList[k].pattern)

\* C2: match_fields returns exactly one Match Result per input descriptor:
\* the result has as many entries as the input list has descriptors (also
\* when two descriptors have the same content), every input descriptor has
\* an entry, and a descriptor whose text holds no vocabulary phrase has the
\* entry (None, 0.0) rather than being left out.
C2_OneResultPerDescriptor ==
  b_last.op = "match_fields" =>
    /\ Cardinality(DOMAIN b_last.matches) = Len(b_last.form_fields)
    /\ \A i \in 1..Len(b_last.form_fields) :
         /\ FieldKey(i, b_last.form_fields[i]) \in DOMAIN b_last.matches
         /\ b_last.matches[FieldKey(i, b_last.form_fields[i])].field \in
              {None} \cup {FIELD_PATTERNS[a].field : a \in 1..Len(FIELD_PATTERNS)}
         /\ ~SomePhraseIn(ExtractFieldText(b_last.form_fields[i])) =>
              b_last.matches[FieldKey(i, b_last.form_fields[i])] = NoMatch

\* a batch of two descriptors with the same content and no vocabulary phrase
C2_Witness ==
  /\ b_last.op = "match_fields"
  /\ Len(b_last.form_fields) = 2
  /\ b_last.form_fields[1] = b_last.form_fields[2]
  /\ ~SomePhraseIn(ExtractFieldText(b_last.form_fields[1]))
  /\ Cardinality(DOMAIN b_last.matches) = 2
  /\ b_last.matches[FieldKey(2, b_last.form_fields[2])] = NoMatch

\* C3: the NLP engine is loaded at most once per process; once an
\* initialize() has failed the matcher never loads again and every later
\* match is a substring match.
C3_LoadedAtMostOnce ==
  /\ loads <= 1
  /\ everFailed => m_last.strategy # "semantic"

\* C4: match_field is idempotent: a descriptor gets the same Match Result
\* on every call, whatever happened to initialization in between.
C4_SameResultEveryCall ==
  m_last.op = "match_field" => m_last.result = firstResult[m_last.field]

\* C5: when the engine is loaded the semantic strategy runs first and its
\* result is returned only if it names an attribute with a score of at
\* least 0.6; otherwise (engine missing, no attribute, or a lower score)
\* the result is exactly the substring strategy's result.
C5_SemanticFirstWithThreshold ==
  (m_last.op = "match_field" /\ m_last.text # <<>>) =>
    /\ m_last.engine.nlp =>
         m_last.semantic = NlpMatch(TRUE, TRUE, m_last.text)
    /\ (m_last.engine.nlp /\ m_last.semantic.field # None
          /\ FracLeq(Frac(6, 10), m_last.semantic.score)) =>
         (m_last.strategy = "semantic" /\ m_last.result = m_last.semantic)
    /\ ~(m_last.engine.nlp /\ m_last.semantic.field # None
          /\ FracLeq(Frac(6, 10), m_last.semantic.score)) =>
         (m_last.strategy = "substring" /\ m_last.result = PatternMatch(m_last.text))

\* the engine is loaded, names an attribute below the threshold, and the
\* substring result is returned
C5_Witness ==
  /\ m_last.op = "match_field"
  /\ m_last.engine.nlp
  /\ m_last.semantic.field # None
  /\ FracLess(m_last.semantic.score, Frac(6, 10))
  /\ m_last.strategy = "substring"
  /\ m_last.result # m_last.semantic
  /\ m_last.result.field # None

\* C6: a substring score never exceeds 0.9 and a semantic score never
\* exceeds 0.95; every score lies in [0, 0.95].
C6_ScoreCaps ==
  m_last.op = "match_field" =>
    /\ FracLeq(Frac(0, 1), m_last.result.score)
    /\ FracLeq(m_last.result.score, Frac(95, 100))
    /\ FracLeq(m_last.semantic.score, Frac(95, 100))
    /\ m_last.strategy = "substring" => FracLeq(m_last.result.score, Frac(9, 10))
    /\ m_last.text # <<>> => FracLeq(PatternMatch(m_last.text).score, Frac(9, 10))

\* the phrase is the whole text: the substring ratio is 1 and the cap applies
C6_Witness ==
  /\ m_last.op = "match_field"
  /\ m_last.strategy = "substring"
  /\ \E k \in 1..Len(PatternList) : PatternList[k].pattern = m_last.text
  /\ m_last.result.score = Frac(9, 10)

\* C7: match_fields matches each descriptor by itself: every entry is what
\* match_field returns for that descriptor alone, so giving an attribute to
\* one descriptor does not keep it from another, and two fields labelled
\* "Phone" are both matched to phone.
C7_EachDescriptorAlone ==
  b_last.op = "match_fields" =>
    \A i \in 1..Len(b_last.form_fields) :
      /\ b_last.matches[FieldKey(i, b_last.form_fields[i])] =
           MatchFieldCall(b_last.before, b_last.available, b_last.form_fields[i]).result
      /\ b_last.form_fields[i].label = TxtPhone =>
           b_last.matches[FieldKey(i, b_last.form_fields[i])].field = "phone"

\* a batch with two fields labelled "Phone", both matched to phone
C7_Witness ==
  /\ b_last.op = "match_fields"
  /\ \E i, j \in 1..Len(b_last.form_fields) :
       /\ i < j
       /\ b_last.form_fields[i].label = TxtPhone
       /\ b_last.form_fields[j].label = TxtPhone
       /\ b_last.matches[FieldKey(i, b_last.form_fields[i])].field = "phone"
       /\ b_last.matches[FieldKey(j, b_last.form_fields[j])].field = "phone"
\* ---------------------------------------------------------------------------
\* Properties of detection and filling

\* the values Python takes for false
EmptyValues == {PyStr(<<>>), PyNone, PyInt(0)}

\* input types that submit or reset the form or are push buttons
SubmitControlTypes == {"submit", "image", "button", "reset"}

\* the fill of entry k of the last fill_form, done by itself
OwnFill(k) ==
  FillFieldCall(page, detected[f_last.field_mappings[k].field],
                f_last.field_mappings[k].value, f_last.force, f_last.field_mappings[k].env)

\* C1: the pipeline stops short of submission: no detect, match or fill
\* operation targets or activates a submit or button control.  Detection
\* builds no descriptor from such a control, no descriptor's selector
\* resolves to one, and no page call of a fill acts on one.
C1_NeverTargetsSubmitControl ==
  /\ \A k \in 1..Len(detected) :
       /\ detected[k].field_type \notin SubmitControlTypes
       /\ QuerySelector(page, detected[k].selector) # 0 =>
            page[QuerySelector(page, detected[k].selector)].type \notin SubmitControlTypes
  /\ f_last.op = "fill_field" =>
       \A n \in 1..Len(f_last.ops) :
         f_last.ops[n].target # 0 => page[f_last.ops[n].target].type \notin SubmitControlTypes
  /\ f_last.op = "fill_form" =>
       \A k \in 1..Len(f_last.attempts) : \A n \in 1..Len(f_last.attempts[k].ops) :
         f_last.attempts[k].ops[n].target # 0 =>
           page[f_last.attempts[k].ops[n].target].type \notin SubmitControlTypes

\* C8: fill_field with an empty (falsy) value returns False and makes no
\* call on the page, for inputs, textareas and selects, with and without
\* force; the same holds for every empty-valued entry of a fill_form.
C8_EmptyValueTouchesNothing ==
  /\ (f_last.op = "fill_field" /\ f_last.value \in EmptyValues) =>
       (f_last.result = FALSE /\ f_last.ops = <<>> /\ ~f_last.raised)
  /\ f_last.op = "fill_form" =>
       \A k \in 1..Len(f_last.attempts) :
         f_last.field_mappings[k].value \in EmptyValues =>
           (f_last.attempts[k].result = FALSE /\ f_last.attempts[k].ops = <<>>)

\* fill_field with force and the empty string on a detected field
C8_Witness ==
  /\ f_last.op = "fill_field"
  /\ f_last.value = PyStr(<<>>)
  /\ f_last.force
  /\ f_last.result = FALSE
  /\ f_last.ops = <<>>

\* C9: a visibility timeout or an error of a page call while a field is
\* filled makes that field's outcome False and is never raised to the
\* caller (only a failed select by value is followed by the select by
\* label); fill_form attempts every entry of the mapping, also after an
\* entry has failed.
C9_FailureIsFalseAndFillGoesOn ==
  /\ f_last.op = "fill_field" =>
       /\ ~f_last.raised
       /\ f_last.result \in BOOLEAN
       /\ (f_last.ops # <<>> /\ ~f_last.ops[Len(f_last.ops)].ok) => f_last.result = FALSE
       /\ (f_last.ops # <<>> /\ ~f_last.ops[1].ok) => f_last.result = FALSE
  /\ f_last.op = "fill_form" =>
       /\ ~f_last.raised
       /\ Len(f_last.attempts) = Len(f_last.field_mappings)
       /\ \A k \in 1..Len(f_last.field_mappings) :
            /\ ~f_last.attempts[k].raised
            /\ f_last.field_mappings[k].value \notin EmptyValues =>
                 /\ f_last.attempts[k].ops # <<>>
                 /\ f_last.attempts[k].ops[1].method = "wait_for_selector"
                 /\ ~f_last.attempts[k].ops[Len(f_last.attempts[k].ops)].ok =>
                      f_last.attempts[k].result = FALSE

\* a fill_form whose first entry times out and whose second entry is then
\* filled
C9_Witness ==
  /\ f_last.op = "fill_form"
  /\ Len(f_last.attempts) = 2
  /\ f_last.attempts[1].ops # <<>>
  /\ ~f_last.attempts[1].ops[1].ok
  /\ f_last.attempts[1].result = FALSE
  /\ f_last.attempts[2].result = TRUE

\* C10: fill_form returns a success map in which the success reported for
\* each field of the mapping is the outcome of that field's own fill,
\* whatever else is in the mapping; the numbers of "Filled N/M" are the
\* succeeded and the attempted (descriptor, value) pairs.
C10_OwnOutcomeAndCounts ==
  (f_last.op = "fill_form" /\ ~f_last.raised) =>
    /\ \A k \in 1..Len(f_last.field_mappings) :
         /\ detected[f_last.field_mappings[k].field].selector \in DOMAIN f_last.results
         /\ f_last.results[detected[f_last.field_mappings[k].field].selector]
              = OwnFill(k).result
    /\ f_last.total = Len(f_last.field_mappings)
    /\ f_last.success_count =
         Cardinality({k \in 1..Len(f_last.field_mappings) : OwnFill(k).result})

\* the calls of one fill of a select follow _fill_select: after the wait the
\* option is selected by value; by label only after that has failed
SelectAttempts(ops, result) ==
  (ops # <<>> /\ ops[1].ok) =>
    /\ Len(ops) >= 2
    /\ ops[2].method = "select_option value"
    /\ ops[2].ok => (Len(ops) = 2 /\ result = TRUE)
    /\ ~ops[2].ok =>
         /\ Len(ops) = 3
         /\ ops[3].method = "select_option label"
         /\ result = ops[3].ok

\* C11: filling a select first tries the option whose value equals the
\* target; only if that attempt fails it tries the option whose visible
\* label equals the target; the fill is True if either attempt succeeds and
\* False exactly when both fail.
C11_SelectByValueThenByLabel ==
  /\ (f_last.op = "fill_field" /\ detected[f_last.field].element_type = "select") =>
       SelectAttempts(f_last.ops, f_last.result)
  /\ f_last.op = "fill_form" =>
       \A k \in 1..Len(f_last.attempts) :
         detected[f_last.field_mappings[k].field].element_type = "select" =>
           SelectAttempts(f_last.attempts[k].ops, f_last.attempts[k].result)

\* "Bachelor" is no option value of the select (the value is "bsc") and is
\* the label of an option: the fill succeeds by label
C11_Witness ==
  /\ f_last.op = "fill_field"
  /\ detected[f_last.field].element_type = "select"
  /\ f_last.value = PyStr(TxtBachelor)
  /\ Len(f_last.ops) = 3
  /\ ~f_last.ops[2].ok
  /\ f_last.ops[3].ok
  /\ f_last.result = TRUE

\* ---------------------------------------------------------------------------
\* Properties of detection

\* 'tag:nth-of-type(n)'
PositionalSelector(tag, n) == TagChars(tag) \o StrNthOpen \o Decimal(n) \o StrNthClose

\* C12: every descriptor returned by detect_form_fields has a non-empty
\* selector: when the element has neither id nor name, a positional
\* tag:nth-of-type(k) selector is assigned.
C12_SelectorNeverEmpty ==
  \A k \in 1..Len(detected) :
    /\ detected[k].selector # <<>>
    /\ (detected[k].id = <<>> /\ detected[k].name = <<>>) =>
         \E n \in 1..Len(page) :
           detected[k].selector = PositionalSelector(detected[k].element_type, n)

\* a detected input without id and name, second of the inputs found
C12_Witness ==
  \E k \in 1..Len(detected) :
    /\ detected[k].id = <<>>
    /\ detected[k].name = <<>>
    /\ detected[k].selector = PositionalSelector("input", 2)

\* the elements of the page a selector resolves to
Resolves(selector) == {i \in 1..Len(page) : SelectorMatches(page, i, selector)}

\* C13: for every page and every descriptor produced by one detection pass,
\* the descriptor's selector resolves at detection time to exactly one
\* element, the element the descriptor was built from; hence no two
\* descriptors of the same pass built from different elements share a
\* selector.
C13_SelectorResolvesToOwnElement ==
  d_last.op = "detect" =>
    /\ \A k \in 1..Len(detected) : Resolves(detected[k].selector) = {d_last.from[k]}
    /\ \A k, n \in 1..Len(detected) :
         d_last.from[k] # d_last.from[n] => detected[k].selector # detected[n].selector

\* the elements of the page one of the three queries returns
Queried == {i \in 1..Len(page) : \E tag \in {"input", "textarea", "select"} : QueryMatches(tag, page[i])}

\* C14: a failure while processing one element during detection skips only
\* that element: detect_form_fields still returns a descriptor for every
\* other matching element whose processing did not fail, and never raises.
C14_FailingElementSkippedAlone ==
  d_last.op = "detect" =>
    /\ ~d_last.raised
    /\ Len(detected) = Len(d_last.from)
    /\ {d_last.from[k] : k \in 1..Len(detected)} = Queried \ d_last.detached
    /\ \A k, n \in 1..Len(detected) : k # n => d_last.from[k] # d_last.from[n]
    /\ \A k \in 1..Len(detected) :
         /\ detected[k].element_type = page[d_last.from[k]].tag
         /\ detected[k].id = page[d_last.from[k]].id
         /\ detected[k].name = page[d_last.from[k]].name

\* the first of two queried elements fails and the second is described
C14_Witness ==
  /\ d_last.op = "detect"
  /\ Len(page) = 2
  /\ Queried = {1, 2}
  /\ d_last.detached = {1}
  /\ d_last.from = <<2>>
  /\ Len(detected) = 1

\* ---------------------------------------------------------------------------
\* The e-mail scenario

\* Descriptors[1] is the field with name "", id "email_addr", placeholder
\* "you@example.com" and label "Email Address"
EmailScenario ==
  CHOOSE k \in 1..Len(Descriptors) :
    Descriptors[k] = TextField(TxtEmailAddress, TxtYouAtExample, <<>>, TxtEmailAddr)
PhraseEmail == <<"e","m","a","i","l">>
PhraseEmailAddress == <<"e","m","a","i","l"," ","a","d","d","r","e","s","s">>

C16_IdleTimeoutIsNoFailure ==
  (n_last.op = "navigate_to" /\ n_last.loaded) => n_last.result = TRUE

\* C19: the session lifecycle operations are idempotent: start() while the
\* browser is already running launches nothing and leaves the manager's
\* state unchanged, and stop() on an already closed session is a no-op, so
\* repeating either call has the same effect as calling it once.
C19_StartAndStopIdempotent ==
  /\ (n_last.op = "start" /\ n_last.procs.browsers > 0) =>
       (n_last.launched = 0 /\ manager = n_last.before /\ processes = n_last.procs)
  /\ (n_last.op = "stop" /\ ~n_last.before.is_running) =>
       (manager = n_last.before /\ processes = n_last.procs)
  /\ (n_last.op \in {"start", "stop"} /\ n_last.prev.op = n_last.op /\ ~n_last.prev.raised) =>
       (manager = n_last.before /\ processes = n_last.procs)

\* ---------------------------------------------------------------------------
\* Properties of the new-application flow

\* what detect_and_match_fields returns and render_field_detection shows
\* when the URL loads, the network gets idle and the document has no element
ReportForNoElements ==
  LET call == DetectAndMatchFieldsCall(Engine, modelAvailable, manager, processes,
                                       FlowEnv("none", TRUE, TRUE, TRUE), <<>>, {})
  IN [detected_fields |-> call.detected_fields, field_mappings |-> call.field_mappings,
      messages |-> DetectionMessages(call.detected_fields, call.error)]

\* C15: the pipeline's outcome for a successfully loaded page with zero
\* form elements is distinguishable by the caller from its outcome for a
\* navigation failure: the two cases never produce the same reported
\* result.
C15_NoFieldsUnlikeNavigationFailure ==
  (r_last.op = "detect_and_match_fields" /\ r_last.went /\ ~r_last.success) =>
    [detected_fields |-> r_last.detected_fields, field_mappings |-> r_last.field_mappings,
     messages |-> r_last.messages] # ReportForNoElements

\* the URLs that fail validation: empty, without scheme, without host
MalformedUrls == {UrlNone, UrlNoScheme, UrlNoHost}

C18_NoPageOutlivesItsFlow ==
  /\ processes.pages <= 1
  /\ session_state.application_step = "url_input" => processes.pages = 0
  /\ (r_last.op = "detect_and_match_fields" /\ (r_last.error \/ ~r_last.success)) =>
       processes.pages = 0

\* ---------------------------------------------------------------------------
\* Properties of one fill attempt

WriteMethods == {"fill", "type", "select_option value", "select_option label"}

\* the calls of one attempt on the page and what it answers: the wait comes
\* first, only writes follow it and none follows a wait that failed, and the
\* answer is True when the last call returned and False when it raised
AttemptPhases(attempt) ==
  /\ ~attempt.raised
  /\ attempt.result \in BOOLEAN
  /\ attempt.ops # <<>>
  /\ attempt.ops[1].method = "wait_for_selector"
  /\ \A k \in 2..Len(attempt.ops) : attempt.ops[k].method \in WriteMethods
  /\ ~attempt.ops[1].ok => (Len(attempt.ops) = 1 /\ attempt.result = FALSE)
  /\ attempt.ops[1].ok => Len(attempt.ops) >= 2
  /\ attempt.result = attempt.ops[Len(attempt.ops)].ok

FilledTypes == {"input", "textarea", "select"}

\* C21: every fill attempt with a non-empty value on an input, textarea or
\* select goes Pending -> WaitingVisible -> Writing -> {Done, Failed}: the
\* visibility wait precedes any clear/type/fill/select on the page, no write
\* is performed when the wait fails, and the attempt ends in exactly one of
\* Done (True) or Failed (False).
C21_WaitThenWriteThenOneOutcome ==
  /\ (/\ f_last.op = "fill_field"
      /\ Truthy(f_last.value)
      /\ detected[f_last.field].element_type \in FilledTypes) =>
       AttemptPhases(f_last)
  /\ f_last.op = "fill_form" =>
       \A k \in 1..Len(f_last.attempts) :
         (/\ Truthy(f_last.field_mappings[k].value)
          /\ detected[f_last.field_mappings[k].field].element_type \in FilledTypes) =>
           AttemptPhases(f_last.attempts[k])

\* the element does not get visible within the timeout: the forced fill of
\* an input ends after the wait, with no clear and no type, and is False
C21_Witness ==
  /\ f_last.op = "fill_field"
  /\ Truthy(f_last.value)
  /\ f_last.force
  /\ detected[f_last.field].element_type = "input"
  /\ f_last.env = EnvTimeout
  /\ Len(f_last.ops) = 1
  /\ f_last.result = FALSE

\* ---------------------------------------------------------------------------
\* Properties of the two strategies

\* the vocabulary phrases, by their position in declaration order, that
\* occur in the text
Occurring(field_text) ==
  {k \in 1..Len(PatternList) : Contains(field_text, PatternList[k].pattern)}

\* min(len(phrase) / len(text), 0.9)
CappedRatio(k, field_text) ==
  FracMin(Frac(Len(PatternList[k].pattern), Len(field_text)), Frac(9, 10))

\* the first phrase in declaration order among those of the highest score
FirstOfHighest(field_text) ==
  CHOOSE k \in Occurring(field_text) :
    \A j \in Occurring(field_text) :
      /\ ~FracLess(CappedRatio(k, field_text), CappedRatio(j, field_text))
      /\ ~FracLess(CappedRatio(j, field_text), CappedRatio(k, field_text)) => k <= j

TxtPhoneEmailNormalized == <<"p","h","o","n","e"," ","e","m","a","i","l">>

\* C22: the substring strategy returns, over all vocabulary phrases that
\* occur as a substring of the normalized text, the attribute of the phrase
\* with the highest score min(len(phrase)/len(text), 0.9); among phrases
\* with equal highest score the one first in declaration order wins; when
\* no phrase occurs it returns (None, 0.0).
C22_HighestScoreFirstDeclared ==
  (m_last.op = "match_field" /\ m_last.strategy = "substring") =>
    IF Occurring(m_last.text) = {} THEN m_last.result = NoMatch
    ELSE /\ m_last.result.field = PatternList[FirstOfHighest(m_last.text)].field
         /\ m_last.result.score = CappedRatio(FirstOfHighest(m_last.text), m_last.text)

\* "phone email": 'email' and 'phone' both score 5/11, 'phone' comes first
\* in the text and 'email' first in the vocabulary; the result is email
C22_Witness ==
  /\ m_last.op = "match_field"
  /\ m_last.strategy = "substring"
  /\ m_last.text = TxtPhoneEmailNormalized
  /\ \E j, k \in Occurring(m_last.text) :
       /\ j < k
       /\ PatternList[j].field = "email"
       /\ PatternList[k].field = "phone"
       /\ CappedRatio(j, m_last.text) = Frac(5, 11)
       /\ CappedRatio(k, m_last.text) = Frac(5, 11)
       /\ FirstOfHighest(m_last.text) = j
  /\ m_last.result = [field |-> "email", score |-> Frac(5, 11)]

\* the vocabulary entries, by their position in declaration order, that the
\* phrase matcher finds in the text
MatchingEntries(field_text) == {m[1] : m \in MatcherCall(Tokenize(field_text))}

\* the first of them in declaration order
FirstDeclared(field_text) ==
  CHOOSE k \in MatchingEntries(field_text) : \A j \in MatchingEntries(field_text) : k <= j

\* C23: when several vocabulary entries match the normalized text under the
\* semantic strategy, the entry returned is the first match in declaration
\* order of the vocabulary, and its confidence is
\* min(matchTokenCount / totalTokenCount, 1.0) * 0.95.
C23_SemanticFirstDeclared ==
  (/\ m_last.op = "match_field"
   /\ m_last.engine.nlp
   /\ m_last.text # <<>>
   /\ MatchingEntries(m_last.text) # {}) =>
    /\ m_last.semantic.field = PatternList[FirstDeclared(m_last.text)].field
    /\ m_last.semantic.score =
         FracMul(FracMin(Frac(Len(PatternDocs[FirstDeclared(m_last.text)]),
                              Len(Tokenize(m_last.text))), Frac(1, 1)),
                 Frac(95, 100))

\* ---------------------------------------------------------------------------
\* The derived label

\* where `part` first occurs in `text`, 0 when it does not
FirstOccurrence(text, part) ==
  LET at == {i \in 1..(Len(text) - Len(part) + 1) : SubSeq(text, i, i + Len(part) - 1) = part}
  IN IF part = <<>> \/ at = {} THEN 0 ELSE CHOOSE i \in at : \A j \in at : i <= j

\* the text with the control's own value taken out
WithoutValue(text, value) ==
  IF FirstOccurrence(text, value) = 0 THEN text
  ELSE SubSeq(text, 1, FirstOccurrence(text, value) - 1)
       \o SubSeq(text, FirstOccurrence(text, value) + Len(value), Len(text))

\* the chain (a) label for=id, (b) aria-label, (c) ancestor label without
\* the control's value, (d) "": its first result that is not empty
ChainLabel(e) ==
  LET a == IF e.id # <<>> THEN StrStrip(e.for_label) ELSE <<>>
      b == StrStrip(e.aria_label)
      c == IF e.parent_label = NoLabel THEN <<>>
           ELSE StrStrip(WithoutValue(e.parent_label, e.value))
  IN IF a # <<>> THEN a ELSE IF b # <<>> THEN b ELSE c

\* C24: the derived label of a control is the first non-empty result of the
\* chain: (a) the text of the label whose for attribute equals the control's
\* id; (b) the control's aria-label; (c) the text of an ancestor label with
\* the control's own current value removed; (d) the empty string.
C24_LabelByPriorityChain ==
  d_last.op = "detect" =>
    \A k \in 1..Len(detected) : detected[k].label = ChainLabel(page[d_last.from[k]])

\* an attribute with a score above zero, or no attribute and the score 0.0
NamedIffScored(r) ==
  /\ r.field = None <=> r.score = Frac(0, 1)
  /\ r.field # None => FracLess(Frac(0, 1), r.score)
  /\ r.field = None => r = [field |-> None, score |-> Frac(0, 1)]

\* C25: every result match_field returns has attribute None if and only if
\* its score is 0.0: a named attribute always comes with a score above 0 and
\* the absence of a match is always exactly (None, 0.0), under both
\* strategies.
C25_NoneIffZeroScore ==
  /\ m_last.op = "match_field" => NamedIffScored(m_last.result)
  /\ b_last.op = "match_fields" =>
       \A key \in DOMAIN b_last.matches : NamedIffScored(b_last.matches[key])

\* 'foo' with the model loaded: neither strategy finds a phrase and the
\* substring strategy answers (None, 0.0)
C25_Witness ==
  /\ m_last.op = "match_field"
  /\ m_last.engine.nlp
  /\ m_last.text # <<>>
  /\ m_last.strategy = "substring"
  /\ m_last.result.field = None
  /\ m_last.result.score = Frac(0, 1)

\* the browsers and drivers a stop() called now would close: those the
\* manager's fields hold while _is_running is set.  A stop() with
\* _is_running unset returns at once, and a start() with it unset replaces
\* what the fields hold.
WithinReachOfStop ==
  [browsers |-> IF manager.is_running /\ manager.browser = "open" THEN 1 ELSE 0,
   drivers |-> IF manager.is_running /\ manager.playwright = "started" THEN 1 ELSE 0]

\* C26: after any sequence of start() and stop() calls, including a start()
\* that fails part-way and a stop() in which one release step fails, every
\* launched driver and browser is either released or still released by a
\* later stop(): no launched browser process is left that no subsequent
\* stop() will close.
C26_NoBrowserBeyondStop ==
  /\ processes.browsers = WithinReachOfStop.browsers
  /\ processes.drivers = WithinReachOfStop.drivers

\* C27: within one application flow the job URL is opened and detection is
\* run once per entry into the field-detection step; a further page is
\* opened and navigated only after the user chooses 'Try Again', not as a
\* side effect of the other interactions (Back, Continue to Review) handled
\* while the step is field_detection.
C27_OnlyTryAgainOpensAgain ==
  (r_last.op = "detect_and_match_fields" /\ r_last.click \in {"Back", "Continue to Review"}) =>
    (~r_last.opened /\ ~r_last.went)

\* ---------------------------------------------------------------------------
\* Properties of the review step

\* C28: whenever the review step reports 'Application marked as submitted'
\* (or 'marked as skipped'), the current application exists in the store
\* with status SUBMITTED (resp. SKIPPED), under any interleaving with other
\* operations on the store such as delete_application from the dashboard.
C28_ReportedStatusIsStored ==
  /\ (r_last.op = "review" /\ "Application marked as submitted!" \in r_last.messages) =>
       (/\ r_last.application_id \in 1..Len(store)
        /\ store[r_last.application_id] = "submitted")
  /\ (r_last.op = "review" /\ "Application marked as skipped" \in r_last.messages) =>
       (/\ r_last.application_id \in 1..Len(store)
        /\ store[r_last.application_id] = "skipped")

\* ---------------------------------------------------------------------------
\* Properties of the profile values

\* C29: in the mapping produced by profile_to_dict, the value under each of
\* the 21 canonical attribute names is the profile's own stored value for
\* that attribute: no entry of the profile's custom_fields can replace the
\* value of a canonical attribute.
C29_CanonicalValuesAreOwn ==
  (p_last.op = "profile_to_dict" /\ p_last.profile # <<>>) =>
    \A a \in CanonicalAttributes :
      /\ a \in DOMAIN p_last.result
      /\ p_last.result[a] = p_last.profile[1][a]

\* ---------------------------------------------------------------------------
\* Properties of the vocabulary

\* the text of a field before punctuation is replaced: its label,
\* placeholder, name and id joined and lowercased
RawFieldText(field) ==
  StrLower(StrJoin(SelectSeq(FieldTexts(field), LAMBDA t : t # <<>>)))

\* C30: every surface-form phrase of the vocabulary is matchable by the
\* substring strategy: each phrase is unchanged by the normalization of the
\* field text (lowercase, punctuation to white space, white space
\* collapsed), so a field whose own text holds the phrase has a normalized
\* text that holds it too.
C30_EveryPhraseMatchable ==
  m_last.op = "match_field" =>
    \A k \in 1..Len(PatternList) :
      Contains(RawFieldText(Descriptors[m_last.field]), PatternList[k].pattern) =>
        /\ StrStrip(SubSpaces(SubPunct(StrLower(PatternList[k].pattern))))
             = PatternList[k].pattern
        /\ Contains(m_last.text, PatternList[k].pattern)
====
